---- MODULE Spec2Model ----
(***************************************************************************)
(* A model of fuzmon's sampling engine: the FD differ (procinfo.rs), the   *)
(* sampler loop (run.rs), the ptrace capture and the module cache          *)
(* (stacktrace.rs), and the stacktrace gate of build_log_entry (run.rs and *)
(* the copy kept in main.rs).                                              *)
(*                                                                         *)
(* Option<T> is modelled as a sequence: None is <<>>, Some(x) is <<x>>.    *)
(* A HashMap<K, V> is a function whose DOMAIN is the key set; the order in *)
(* which the code iterates a HashMap is an input of the action.            *)
(***************************************************************************)
EXTENDS Bags, Integers, Sequences, FiniteSets, TLC

None == <<>>
Some(x) == <<x>>
IsSome(o) == o # <<>>
Unwrap(o) == o[1]

\* ------------------------------------------------------------------ bounds

\* fd numbers 0 .. MaxDiffFd-1 are used by the FD differ specification.
MaxDiffFd == 2
\* fd numbers 0 .. MaxFd-1 are used by the sampler specification.
MaxFd == 1
\* /proc/stat's total jiffies run from 1 to MaxJiffies.
MaxJiffies == 2
\* u64 addresses are modelled at AddrWidth bits.
AddrWidth == 2
\* The addresses of /proc/<pid>/maps lines run from 0 to MaxMapAddr.
MaxMapAddr == 3
\* A log file read by report holds at most MaxTraceEntries entries.
MaxTraceEntries == 3

Paths == {"a", "b"}
DiffFds == 0 .. (MaxDiffFd - 1)
Fds == 0 .. (MaxFd - 1)

\* Every HashMap<i32, String> over the fd numbers F.
FdMaps(F) == UNION {[S -> Paths] : S \in SUBSET F}
EmptyMap == [x \in {} |-> "a"]

\* Every order in which the keys S of a HashMap can be iterated.
Perms(S) == {s \in [1 .. Cardinality(S) -> S] : \A i, j \in 1 .. Cardinality(S) : s[i] = s[j] => i = j}

\* ------------------------------------------------- procinfo.rs: FD differ

FdEvent(fd, old, new) == [fd |-> fd, old_path |-> old, new_path |-> new]

\* The first loop of detect_fd_events: the fds of state.fds, in iteration
\* order ordP, that are gone (close) or point elsewhere (replace).
RECURSIVE GoneOrReplaced(_, _, _)
GoneOrReplaced(P, C, ordP) ==
    IF ordP = <<>> THEN <<>>
    ELSE LET fd == Head(ordP)
             rest == GoneOrReplaced(P, C, Tail(ordP))
         IN IF fd \notin DOMAIN C
               THEN <<FdEvent(fd, Some(P[fd]), None)>> \o rest
            ELSE IF C[fd] # P[fd]
               THEN <<FdEvent(fd, Some(P[fd]), Some(C[fd]))>> \o rest
            ELSE rest

\* The second loop of detect_fd_events: the fds of current, in iteration
\* order ordC, that state.fds does not hold (open).
RECURSIVE Opened(_, _, _)
Opened(P, C, ordC) ==
    IF ordC = <<>> THEN <<>>
    ELSE LET fd == Head(ordC)
             rest == Opened(P, C, Tail(ordC))
         IN IF fd \notin DOMAIN P
               THEN <<FdEvent(fd, None, Some(C[fd]))>> \o rest
            ELSE rest

\* A detect_fd_events that reports no event for an fd whose path changed.
RECURSIVE GoneOnly(_, _, _)
GoneOnly(P, C, ordP) ==
    IF ordP = <<>> THEN <<>>
    ELSE LET fd == Head(ordP)
             rest == GoneOnly(P, C, Tail(ordP))
         IN IF fd \notin DOMAIN C
               THEN <<FdEvent(fd, Some(P[fd]), None)>> \o rest
            ELSE rest

DetectNoReplace(state, current, ordP, ordC) ==
    [state |-> [state EXCEPT !.fds = current],
     events |-> GoneOnly(state.fds, current, ordP) \o Opened(state.fds, current, ordC)]

\* A detect_fd_events whose second loop reports every fd of current as
\* opened, also one state.fds holds.
RECURSIVE OpenedAll(_, _)
OpenedAll(C, ordC) ==
    IF ordC = <<>> THEN <<>>
    ELSE <<FdEvent(Head(ordC), None, Some(C[Head(ordC)]))>> \o OpenedAll(C, Tail(ordC))

DetectOpensAll(state, current, ordP, ordC) ==
    [state |-> [state EXCEPT !.fds = current],
     events |-> GoneOrReplaced(state.fds, current, ordP) \o OpenedAll(current, ordC)]

\* detect_fd_events(pid, state): current is what read_fd_map(pid) returns,
\* ordP and ordC the iteration orders of state.fds and of current. The
\* result is the events and the state with fds replaced by current.
detect_fd_events(state, current, ordP, ordC) ==
    [state |-> [state EXCEPT !.fds = current],
     events |-> GoneOrReplaced(state.fds, current, ordP) \o Opened(state.fds, current, ordC)]

FdLogEvent(fd, ev, path) == [fd |-> fd, event |-> ev, path |-> path]

\* A drain that logs the "open" of an FdEvent before its "close".
RECURSIVE ExpandOpenFirst(_)
ExpandOpenFirst(evs) ==
    IF evs = <<>> THEN <<>>
    ELSE LET ev == Head(evs)
         IN (IF IsSome(ev.new_path) THEN <<[fd |-> ev.fd, event |-> "open", path |-> Unwrap(ev.new_path)]>> ELSE <<>>)
            \o (IF IsSome(ev.old_path) THEN <<[fd |-> ev.fd, event |-> "close", path |-> Unwrap(ev.old_path)]>> ELSE <<>>)
            \o ExpandOpenFirst(Tail(evs))

\* process_pid's drain of pending_fd_events: each FdEvent becomes a "close"
\* of old_path (if any) followed by an "open" of new_path (if any).
RECURSIVE ExpandFdEvents(_)
ExpandFdEvents(evs) ==
    IF evs = <<>> THEN <<>>
    ELSE LET ev == Head(evs)
         IN (IF IsSome(ev.old_path) THEN <<FdLogEvent(ev.fd, "close", Unwrap(ev.old_path))>> ELSE <<>>)
            \o (IF IsSome(ev.new_path) THEN <<FdLogEvent(ev.fd, "open", Unwrap(ev.new_path))>> ELSE <<>>)
            \o ExpandFdEvents(Tail(evs))

\* A map with fd removed, and a map with fd set to path.
MapRemove(m, fd) == [x \in DOMAIN m \ {fd} |-> m[x]]
MapPut(m, fd, path) == [x \in DOMAIN m \cup {fd} |-> IF x = fd THEN path ELSE m[x]]

\* ------------------------------------------------ procinfo.rs: CPU usage

\* The number of online CPUs, num_cpus::get().
NumCpus == 2

\* A compute_cpu_percent that leaves out the scaling by the number of CPUs.
CpuPercentOneCpu(delta_proc, delta_total, num_cpus) ==
    IF delta_total = 0 THEN 0 ELSE (100 * delta_proc) \div delta_total

\* compute_cpu_percent(delta_proc, delta_total, num_cpus). The code computes
\* in f32; the model keeps the integer part, which compares with an integer
\* threshold exactly as the real figure does.
compute_cpu_percent(delta_proc, delta_total, num_cpus) ==
    IF delta_total = 0 THEN 0 ELSE (100 * delta_proc * num_cpus) \div delta_total

\* ProcState::default().
DefaultProcState ==
    [prev_proc_time |-> 0, prev_total_time |-> 0, fds |-> EmptyMap,
     pending_fd_events |-> <<>>, metadata_written |-> FALSE]

\* u64::saturating_sub.
saturating_sub(a, b) == IF a >= b THEN a - b ELSE 0

\* A get_proc_usage that computes a figure from the zeroed snapshot of a
\* fresh ProcState instead of only seeding it.
UsageNoSeed(state, stat, total, rss) ==
    IF stat = None \/ total = None THEN [state |-> state, usage |-> None]
    ELSE LET delta_proc == saturating_sub(Unwrap(stat), state.prev_proc_time)
             delta_total == saturating_sub(Unwrap(total), state.prev_total_time)
             seeded == [state EXCEPT !.prev_proc_time = Unwrap(stat),
                                     !.prev_total_time = Unwrap(total)]
         IN IF delta_total = 0 THEN [state |-> seeded, usage |-> None]
            ELSE [state |-> seeded,
                  usage |-> Some(<<compute_cpu_percent(delta_proc, delta_total, NumCpus),
                                   IF IsSome(rss) THEN Unwrap(rss) ELSE 0>>)]

\* A get_proc_usage that returns None on the first observation without
\* storing the snapshot.
UsageFirstNoStore(state, stat, total, rss) ==
    IF stat = None \/ total = None THEN [state |-> state, usage |-> None]
    ELSE LET seeded == [state EXCEPT !.prev_proc_time = Unwrap(stat),
                                     !.prev_total_time = Unwrap(total)]
         IN IF state.prev_total_time = 0 THEN [state |-> state, usage |-> None]
            ELSE LET delta_proc == saturating_sub(Unwrap(stat), state.prev_proc_time)
                     delta_total == saturating_sub(Unwrap(total), state.prev_total_time)
                 IN IF delta_total = 0 THEN [state |-> seeded, usage |-> None]
                    ELSE [state |-> seeded,
                          usage |-> Some(<<compute_cpu_percent(delta_proc, delta_total, NumCpus),
                                           IF IsSome(rss) THEN Unwrap(rss) ELSE 0>>)]

\* get_proc_usage(pid, state): stat is read_proc_stat's utime + stime, total
\* is read_total_cpu_time's sum, rss is rss_kb(pid); each may be None. The
\* result is the updated state and Option<(cpu, rss)>.
get_proc_usage(state, stat, total, rss) ==
    IF stat = None \/ total = None THEN [state |-> state, usage |-> None]
    ELSE LET seeded == [state EXCEPT !.prev_proc_time = Unwrap(stat),
                                     !.prev_total_time = Unwrap(total)]
         IN IF state.prev_total_time = 0 THEN [state |-> seeded, usage |-> None]
            ELSE LET delta_proc == saturating_sub(Unwrap(stat), state.prev_proc_time)
                     delta_total == saturating_sub(Unwrap(total), state.prev_total_time)
                 IN IF delta_total = 0 THEN [state |-> seeded, usage |-> None]
                    ELSE [state |-> seeded,
                          usage |-> Some(<<compute_cpu_percent(delta_proc, delta_total, NumCpus),
                                           IF IsSome(rss) THEN Unwrap(rss) ELSE 0>>)]

\* ------------------------------------------------- run.rs: skip predicate

\* A should_skip_pid that applies the filters to a pinned PID too.
SkipIgnoresPin(name, target_pid, ignore, record_cpu_percent_threshold, cpu_percent) ==
    (IsSome(name) /\ Unwrap(name) \in ignore)
    \/ cpu_percent < record_cpu_percent_threshold

\* should_skip_pid: ignore is the set of names some ignore pattern matches.
should_skip_pid(name, target_pid, ignore, record_cpu_percent_threshold, cpu_percent) ==
    IF target_pid = None
       THEN (IsSome(name) /\ Unwrap(name) \in ignore)
            \/ cpu_percent < record_cpu_percent_threshold
       ELSE FALSE

\* ------------------------------------------------ run.rs: build_log_entry

ThreadInfo(tid, c, py) == [tid |-> tid, stacktrace |-> c, python_stacktrace |-> py]

\* name.starts_with("python"), over the process names of the model.
StartsWithPython(name) == name \in {"python", "python3"}

\* The first merge loop: one ThreadInfo per native trace, with the Python
\* frames of the same TID removed from py_traces.
RECURSIVE NativeThreads(_, _)
NativeThreads(c_traces, py_traces) ==
    IF c_traces = <<>> THEN <<>>
    ELSE LET t == Head(c_traces)
         IN <<ThreadInfo(t.tid, t.stacktrace,
                         IF t.tid \in DOMAIN py_traces THEN Some(py_traces[t.tid]) ELSE None)>>
            \o NativeThreads(Tail(c_traces), py_traces)

\* The second merge loop: the TIDs left in py_traces, in iteration order.
RECURSIVE PythonOnlyThreads(_, _)
PythonOnlyThreads(py_traces, order) ==
    IF order = <<>> THEN <<>>
    ELSE <<ThreadInfo(Head(order), None, Some(py_traces[Head(order)]))>>
         \o PythonOnlyThreads(py_traces, Tail(order))

TidsOf(c_traces) == {c_traces[i].tid : i \in DOMAIN c_traces}

\* A merge that looks the Python frames of a TID up with get instead of
\* remove, so the second loop emits the TID again.
CapturedThreadsNoRemove(name, rd) ==
    LET py_traces == IF StartsWithPython(name) /\ IsSome(rd.py_traces)
                        THEN Unwrap(rd.py_traces) ELSE EmptyMap
    IN NativeThreads(rd.c_traces, py_traces)
       \o PythonOnlyThreads(py_traces, SelectSeq(rd.py_order, LAMBDA t : t \in DOMAIN py_traces))

\* The threads captured once the gate is open. rd.c_traces is the result of
\* capture_c_stack_traces, rd.py_traces that of capture_python_stack_traces
\* (None for Err), rd.py_order the iteration order of what is left of it.
CapturedThreads(name, rd) ==
    LET py_traces == IF StartsWithPython(name) /\ IsSome(rd.py_traces)
                        THEN Unwrap(rd.py_traces) ELSE EmptyMap
        left == [t \in DOMAIN py_traces \ TidsOf(rd.c_traces) |-> py_traces[t]]
    IN NativeThreads(rd.c_traces, py_traces)
       \o PythonOnlyThreads(left, SelectSeq(rd.py_order, LAMBDA t : t \in DOMAIN left))

\* The stacktrace gate of build_log_entry in run.rs (line 413).
StacktraceGate(cpu_percent, stacktrace_cpu_percent_threshold) ==
    cpu_percent >= stacktrace_cpu_percent_threshold

\* The stacktrace gate of the build_log_entry kept in main.rs (line 349).
MainStacktraceGate(cpu, stacktrace_cpu_percent_threshold) ==
    cpu < stacktrace_cpu_percent_threshold

OrElse(o, d) == IF IsSome(o) THEN Unwrap(o) ELSE d

\* A build_log_entry that never records that the metadata was written.
BuildForgetsMetadata(pid, state, cpu_percent, rss, fd_events, stacktrace_cpu_percent_threshold, rd) ==
    LET name == OrElse(rd.name, "?")
    IN [entry |->
          [timestamp |-> rd.now,
           pid |-> pid,
           process_name |-> name,
           cpu_time_percent |-> cpu_percent,
           memory |-> [rss_kb |-> rss, vsz_kb |-> OrElse(rd.vsz, 0), swap_kb |-> OrElse(rd.swap, 0)],
           cmdline |-> IF ~state.metadata_written THEN rd.cmdline ELSE None,
           env |-> IF ~state.metadata_written THEN rd.env ELSE None,
           fd_events |-> IF fd_events = <<>> THEN None ELSE Some(fd_events),
           threads |-> IF StacktraceGate(cpu_percent, stacktrace_cpu_percent_threshold)
                          THEN CapturedThreads(name, rd) ELSE <<>>,
           by |-> "process_pid"],
        state |-> state,
        captured |-> StacktraceGate(cpu_percent, stacktrace_cpu_percent_threshold)]

\* build_log_entry of run.rs. rd holds what the /proc reads and the captures
\* return during the call. The result is the entry, the updated state and
\* whether the capture functions were called.
build_log_entry(pid, state, cpu_percent, rss, fd_events, stacktrace_cpu_percent_threshold, rd) ==
    LET name == OrElse(rd.name, "?")
        fresh == ~state.metadata_written
    IN [entry |->
          [timestamp |-> rd.now,
           pid |-> pid,
           process_name |-> name,
           cpu_time_percent |-> cpu_percent,
           memory |-> [rss_kb |-> rss, vsz_kb |-> OrElse(rd.vsz, 0), swap_kb |-> OrElse(rd.swap, 0)],
           cmdline |-> IF fresh THEN rd.cmdline ELSE None,
           env |-> IF fresh THEN rd.env ELSE None,
           fd_events |-> IF fd_events = <<>> THEN None ELSE Some(fd_events),
           threads |-> IF StacktraceGate(cpu_percent, stacktrace_cpu_percent_threshold)
                          THEN CapturedThreads(name, rd) ELSE <<>>,
           by |-> "process_pid"],
        state |-> [state EXCEPT !.metadata_written = TRUE],
        captured |-> StacktraceGate(cpu_percent, stacktrace_cpu_percent_threshold)]

\* build_log_entry of main.rs: no metadata, and its own gate.
main_build_log_entry(pid, cpu, rss, fd_events, stacktrace_cpu_percent_threshold, rd) ==
    LET name == OrElse(rd.name, "?")
    IN [entry |->
          [timestamp |-> rd.now,
           pid |-> pid,
           process_name |-> name,
           memory |-> [rss_kb |-> rss, vsz_kb |-> OrElse(rd.vsz, 0), swap_kb |-> OrElse(rd.swap, 0)],
           fd_events |-> IF fd_events = <<>> THEN None ELSE Some(fd_events),
           threads |-> IF MainStacktraceGate(cpu, stacktrace_cpu_percent_threshold)
                          THEN CapturedThreads(name, rd) ELSE <<>>],
        captured |-> MainStacktraceGate(cpu, stacktrace_cpu_percent_threshold)]

\* ---------------------------------------------------- run.rs: process_pid

\* A process_pid that writes the pending events without draining them.
EmitKeepsPending(pid, state, usage, cfg, rd) ==
    LET cpu == IF IsSome(usage) THEN Unwrap(usage)[1] ELSE 0
        d == detect_fd_events(state, rd.fds, rd.ord_prev, rd.ord_cur)
        pending == d.state.pending_fd_events \o d.events
        rss == IF IsSome(usage) THEN Unwrap(usage)[2] ELSE OrElse(rd.rss, 0)
        kept == [d.state EXCEPT !.pending_fd_events = pending]
        built == build_log_entry(pid, kept, cpu, rss, ExpandFdEvents(pending),
                                 cfg.stacktrace_cpu_percent_threshold, rd)
    IN [state |-> built.state, written |-> <<built.entry>>, skipped |-> FALSE,
        usage |-> usage, raw_events |-> d.events,
        attached |-> built.captured /\ rd.c_traces # <<>>]

\* What process_pid does once the skip predicate has let the PID through:
\* diff the fds, drain the pending events into the entry, build and write it.
EmitEntry(pid, state, usage, cfg, rd) ==
    LET cpu == IF IsSome(usage) THEN Unwrap(usage)[1] ELSE 0
        d == detect_fd_events(state, rd.fds, rd.ord_prev, rd.ord_cur)
        pending == d.state.pending_fd_events \o d.events
        rss == IF IsSome(usage) THEN Unwrap(usage)[2] ELSE OrElse(rd.rss, 0)
        drained == [d.state EXCEPT !.pending_fd_events = <<>>]
        built == build_log_entry(pid, drained, cpu, rss, ExpandFdEvents(pending),
                                 cfg.stacktrace_cpu_percent_threshold, rd)
    IN [state |-> built.state, written |-> <<built.entry>>, skipped |-> FALSE,
        usage |-> usage, raw_events |-> d.events,
        attached |-> built.captured /\ rd.c_traces # <<>>]

\* A process_pid that tests the skip predicate only after writing the entry.
ProcessPidSkipLate(pid, state, cfg, rd) ==
    LET u == get_proc_usage(state, rd.stat, rd.total, rd.rss)
        cpu == IF IsSome(u.usage) THEN Unwrap(u.usage)[1] ELSE 0
        skip == should_skip_pid(rd.name, cfg.target_pid, cfg.ignore,
                                cfg.record_cpu_percent_threshold, cpu)
    IN [EmitEntry(pid, u.state, u.usage, cfg, rd) EXCEPT !.skipped = skip]

\* process_pid(pid, states, ...): state is states.entry(pid).or_default(), rd
\* what the /proc reads and the captures return during the call. The result
\* is the PID's new state, the entries handed to write_log, whether the PID
\* was skipped, the usage computed, the raw FdEvents detected and whether
\* capture_stack_trace attached to a thread of the PID.
process_pid(pid, state, cfg, rd) ==
    LET u == get_proc_usage(state, rd.stat, rd.total, rd.rss)
        cpu == IF IsSome(u.usage) THEN Unwrap(u.usage)[1] ELSE 0
    IN IF should_skip_pid(rd.name, cfg.target_pid, cfg.ignore,
                          cfg.record_cpu_percent_threshold, cpu)
          THEN [state |-> u.state, written |-> <<>>, skipped |-> TRUE,
                usage |-> u.usage, raw_events |-> <<>>, attached |-> FALSE]
          ELSE EmitEntry(pid, u.state, u.usage, cfg, rd)

\* --------------------------------------------------- run.rs: prune_states

\* The "close" events of the drain of state.fds, in iteration order ord.
RECURSIVE DrainClose(_, _)
DrainClose(fds, ord) ==
    IF ord = <<>> THEN <<>>
    ELSE <<FdLogEvent(Head(ord), "close", fds[Head(ord)])>> \o DrainClose(fds, Tail(ord))

\* The final entry prune_states builds for a departed PID.
FinalEntry(old, events, name, ts) ==
    [timestamp |-> ts,
     pid |-> old,
     process_name |-> OrElse(name, "?"),
     cpu_time_percent |-> 0,
     memory |-> [rss_kb |-> 0, vsz_kb |-> 0, swap_kb |-> 0],
     cmdline |-> None,
     env |-> None,
     fd_events |-> Some(events),
     threads |-> <<>>,
     by |-> "prune_states"]

\* A prune_states that writes a final entry even when no fd is left.
RECURSIVE PruneWritesAlways(_, _, _, _, _, _)
PruneWritesAlways(states, pid_set, existing, ords, names, ts) ==
    IF existing = <<>> THEN <<>>
    ELSE LET old == Head(existing)
             rest == PruneWritesAlways(states, pid_set, Tail(existing), ords, names, ts)
             events == DrainClose(states[old].fds, ords[old])
         IN IF old \notin pid_set
               THEN <<FinalEntry(old, events, names[old], ts)>> \o rest
               ELSE rest

\* The entries prune_states writes: existing is the keys of states in
\* iteration order, ords[pid] the drain order of the PID's fds, names[pid]
\* what process_name(pid) returns and ts what Utc::now() formats to.
RECURSIVE PruneWrites(_, _, _, _, _, _)
PruneWrites(states, pid_set, existing, ords, names, ts) ==
    IF existing = <<>> THEN <<>>
    ELSE LET old == Head(existing)
             rest == PruneWrites(states, pid_set, Tail(existing), ords, names, ts)
             events == DrainClose(states[old].fds, ords[old])
         IN IF old \notin pid_set /\ events # <<>>
               THEN <<FinalEntry(old, events, names[old], ts)>> \o rest
               ELSE rest

\* A prune_states that keeps the state of a departed PID with no fd left.
PruneKeepsIdle(states, pid_set, existing, ords, names, ts) ==
    [states |-> [p \in {q \in DOMAIN states : q \in pid_set \/ DOMAIN states[q].fds = {}} |-> states[p]],
     written |-> PruneWrites(states, pid_set, existing, ords, names, ts)]

\* prune_states(states, pids, ...): the states left and the entries written.
prune_states(states, pid_set, existing, ords, names, ts) ==
    [states |-> [p \in DOMAIN states \cap pid_set |-> states[p]],
     written |-> PruneWrites(states, pid_set, existing, ords, names, ts)]

\* ------------------------------------------------------- the sampler: run

PIDs == {1, 2}
\* The PID a spawned command gets: the lowest one.
ChildPid == CHOOSE p \in PIDs : \A q \in PIDs : p <= q
\* /proc/<pid>/comm and the owner of /proc/<pid>, per PID.
CommOf(pid) == IF pid = 1 THEN "sh" ELSE "python3"
UidOf(pid) == IF pid = 1 THEN 0 ELSE 1000

\* The sleep between two iterations with interval_sec = 0, and its quantum.
SleepMs == 200
QuantumMs == 100
\* run is followed until the wall clock reads MaxClockMs.
MaxClockMs == 400

\* A configuration run is started with: args.pid, whether a command is
\* given, target_uid, the names the ignore patterns match, the thresholds;
\* and the world it runs in: the PIDs that can exist, and what the
\* processes do: "idle" (no jiffies counted, at most one fd, one path), "cpu"
\* (jiffies counted, at most one fd, one path) or "full" (jiffies counted,
\* any fd table).
Config(pid, command, uid, ignore, record, stack, universe, load) ==
    [pid |-> pid, command |-> command, target_uid |-> uid, ignore |-> ignore,
     record_cpu_percent_threshold |-> record, stacktrace_cpu_percent_threshold |-> stack,
     universe |-> universe, load |-> load]

\* The configurations of the iteration-level specification.
IterConfigs ==
    { Config(None, FALSE, None, {}, 0, 1, {1}, "full"),
      Config(None, FALSE, None, {}, 100, 100, {1}, "full"),
      Config(None, FALSE, None, {"sh"}, 0, 0, PIDs, "idle"),
      Config(None, FALSE, Some(1000), {}, 0, 1, PIDs, "idle"),
      Config(Some(1), FALSE, None, {"sh"}, 100, 0, {1}, "full") }

\* The configurations of the specification of run as a whole.
RunConfigs ==
    { Config(None, FALSE, None, {"sh"}, 0, 0, PIDs, "idle"),
      Config(Some(1), FALSE, None, {"sh"}, 100, 0, {1}, "cpu"),
      Config(None, TRUE, None, {}, 0, 0, {ChildPid}, "idle") }

VARIABLES
    \* run: its configuration, position, locals and the terminate flag; ret
    \* is where monitor_iteration returns to
    cfg, pc, ret, target_pid, child, term, elapsed, states, pids,
    \* the environment: the PIDs under /proc, /proc/stat's total jiffies and
    \* the wall clock, in ms since run started
    procs, total_time, now,
    \* history: the entries written by the last step, the last process_pid
    \* call, the bookkeeping of the iteration in progress, per PID whether an
    \* entry was emitted, where the terminate flag was observed, what was
    \* printed
    written, call, iter, hist, obs, printed,
    \* the FD differ on its own
    fd_state, fd_call,
    \* the ptrace capture
    tr,
    \* the module cache
    mc,
    \* the stacktrace gate
    gate,
    \* the last call of a function checked on its own, with its result
    fcall

samplerVars == <<cfg, pc, ret, target_pid, child, term, elapsed, states, pids,
                 procs, total_time, now, written, call, iter, hist, obs, printed>>
fdVars == <<fd_state, fd_call>>
vars == <<samplerVars, fdVars, tr, mc, gate, fcall>>

NoCall == [pid |-> 0, is_new |-> FALSE, usage |-> None, skipped |-> FALSE,
           first |-> FALSE, prior_meta |-> FALSE, name |-> None, cpu |-> 0,
           prev_fds |-> EmptyMap, prev_ts |-> None,
           stat |-> None, total |-> None, prev_proc_time |-> 0, prev_total_time |-> 0,
           term |-> FALSE, head |-> FALSE,
           prev_pending |-> <<>>, prev_meta |-> FALSE]
NoIter == [pids |-> {}, skipped |-> {}, written |-> [p \in PIDs |-> 0],
           finals |-> [p \in PIDs |-> 0], pruned |-> [p \in {} |-> EmptyMap]]
NoHist == [p \in PIDs |-> [emitted |-> FALSE, had_meta |-> FALSE, last_ts |-> None,
                            replay |-> EmptyMap]]
NoObs == [at |-> "none", iterated |-> FALSE, waited |-> FALSE, started |-> 0]

SamplerIdle ==
    /\ cfg = Config(None, FALSE, None, {}, 0, 1, {}, "idle")
    /\ pc = "idle" /\ ret = "idle" /\ target_pid = None /\ child = "none"
    /\ term = FALSE /\ elapsed = 0 /\ states = [p \in {} |-> DefaultProcState]
    /\ pids = <<>> /\ procs = {} /\ total_time = 1 /\ now = 0
    /\ written = <<>> /\ call = NoCall /\ iter = NoIter /\ hist = NoHist
    /\ obs = NoObs /\ printed = {}
FdIdle == fd_state = DefaultProcState /\ fd_call = None
NoTrace == [phase |-> "idle", tid |-> 0, attach_ok |-> FALSE, detached |-> FALSE,
            n |-> 0, rbp |-> 0, iters |-> 0, result |-> "none"]
TraceIdle == tr = NoTrace
NoFile == [kind |-> "missing", mtime |-> 1, content |-> "text"]
CacheIdle == mc = [file |-> NoFile, cache |-> None, last |-> None]
GateIdle == gate = None
CallIdle == fcall = None

\* monitor_iteration called over and over, as run's loop does, from a fresh
\* HashMap of states.
IterInit ==
    /\ cfg \in IterConfigs
    /\ pc = "collect" /\ ret = "collect"
    /\ target_pid = cfg.pid
    /\ child = "none" /\ term = FALSE /\ elapsed = 0
    /\ states = [p \in {} |-> DefaultProcState]
    /\ pids = <<>>
    /\ procs \in SUBSET cfg.universe
    /\ total_time = 1 /\ now = 0
    /\ written = <<>> /\ call = NoCall /\ iter = NoIter /\ hist = NoHist
    /\ obs = NoObs /\ printed = {}

\* run, from its first line.
RunInit ==
    /\ cfg \in RunConfigs
    /\ pc = "load_config" /\ ret = "post_iter"
    /\ target_pid = cfg.pid
    /\ child = "none" /\ term = FALSE /\ elapsed = 0
    /\ states = [p \in {} |-> DefaultProcState]
    /\ pids = <<>>
    /\ procs \in SUBSET (IF cfg.command THEN {} ELSE cfg.universe)
    /\ total_time = 1 /\ now = 0
    /\ written = <<>> /\ call = NoCall /\ iter = NoIter /\ hist = NoHist
    /\ obs = NoObs /\ printed = {}

Init == IterInit /\ FdIdle /\ TraceIdle /\ CacheIdle /\ GateIdle /\ CallIdle

Min(a, b) == IF a < b THEN a ELSE b

\* Utc::now().to_rfc3339_opts(SecondsFormat::Secs, true): the wall clock cut
\* to whole seconds.
Timestamp(ms) == ms \div 1000

\* fs::metadata(format!("/proc/{}", pid)).is_ok()
proc_dir_exists(pid) == pid \in procs
\* procinfo::proc_exists(pid)
proc_exists(pid) == pid \in procs
\* process_name(pid)
process_name(pid) == IF pid \in procs THEN Some(CommOf(pid)) ELSE None
\* pid_uid(pid)
pid_uid(pid) == IF pid \in procs THEN Some(UidOf(pid)) ELSE None

\* collect_pids(target_pid, target_uid), as a set; read_dir's order is an
\* input of the iteration.
collect_pids(target, target_uid) ==
    IF IsSome(target)
       THEN IF proc_dir_exists(Unwrap(target)) THEN {Unwrap(target)} ELSE {}
       ELSE IF IsSome(target_uid)
               THEN {p \in procs : pid_uid(p) = Some(Unwrap(target_uid))}
               ELSE procs

\* What a live process's /proc/<pid>/stat and /proc/<pid>/fd can read as.
JiffyReads == IF cfg.load = "idle" THEN {0} ELSE 0 .. (MaxJiffies - 1)
FdReads == IF cfg.load # "full" THEN {m \in FdMaps(Fds) : \A fd \in DOMAIN m : fd = 0 /\ m[fd] = "a"}
           ELSE FdMaps(Fds)

\* What the /proc reads and the captures of one process_pid call return: for
\* a process that is gone every read fails; for a live one the jiffies and
\* the fd table are inputs and the other reads return the PID's fixtures.
ReadsOf(pid, proc_total, fds, ord_prev, ord_cur) ==
    IF pid \in procs
       THEN [stat |-> Some(proc_total), total |-> Some(total_time), rss |-> Some(64),
             name |-> Some(CommOf(pid)), vsz |-> Some(128), swap |-> Some(0),
             cmdline |-> Some("cmdline"), env |-> Some("env"), now |-> Timestamp(now),
             fds |-> fds, ord_prev |-> ord_prev, ord_cur |-> ord_cur,
             c_traces |-> <<[tid |-> pid, stacktrace |-> Some("native")]>>,
             py_traces |-> Some([t \in {pid} |-> "py"]), py_order |-> <<pid>>]
       ELSE [stat |-> None, total |-> Some(total_time), rss |-> None,
             name |-> None, vsz |-> None, swap |-> None,
             cmdline |-> None, env |-> None, now |-> Timestamp(now),
             fds |-> EmptyMap, ord_prev |-> ord_prev, ord_cur |-> <<>>,
             c_traces |-> <<>>, py_traces |-> None, py_order |-> <<>>]

RunCfg == [target_pid |-> target_pid, ignore |-> cfg.ignore,
           record_cpu_percent_threshold |-> cfg.record_cpu_percent_threshold,
           stacktrace_cpu_percent_threshold |-> cfg.stacktrace_cpu_percent_threshold]

CountBy(entries, pid, by) ==
    Cardinality({i \in DOMAIN entries : entries[i].pid = pid /\ entries[i].by = by})
HasMeta(entries) ==
    \E i \in DOMAIN entries : IsSome(entries[i].cmdline) \/ IsSome(entries[i].env)

\* The fd map a reader of the log rebuilds: m after the fd_events of the
\* entries of pid, in the order they were written.
RECURSIVE ReplayEvents(_, _)
ReplayEvents(m, evs) ==
    IF evs = <<>> THEN m
    ELSE ReplayEvents(IF Head(evs).event = "open"
                         THEN MapPut(m, Head(evs).fd, Head(evs).path)
                         ELSE MapRemove(m, Head(evs).fd),
                      Tail(evs))

RECURSIVE ReplayLog(_, _, _)
ReplayLog(m, pid, entries) ==
    IF entries = <<>> THEN m
    ELSE ReplayLog(IF Head(entries).pid = pid /\ IsSome(Head(entries).fd_events)
                      THEN ReplayEvents(m, Unwrap(Head(entries).fd_events))
                      ELSE m,
                   pid, Tail(entries))

\* run, lines 22-26, with load_config (config.rs 91-100): a config file that
\* cannot be read or parsed makes load_config panic. The panic unwinds out of
\* main or aborts the process, as the build's panic strategy has it.
LoadConfig ==
    /\ pc = "load_config"
    /\ \E loaded \in BOOLEAN :
         IF loaded
            THEN pc' = "start"
            ELSE pc' \in {"panicked", "aborted"}
    /\ UNCHANGED <<now, cfg, ret, target_pid, child, term, elapsed, states, pids,
                   procs, total_time, written, call, iter, hist, obs, printed>>
    /\ UNCHANGED <<fdVars, tr, mc, gate, fcall>>

\* main, lines 70-82: run returns (), main returns after it and the process
\* ends with status 0; no path calls process::exit. A panic that unwinds out
\* of main ends the process with status 101, one that aborts with SIGABRT
\* (status 134 as a shell reports it).
exit_code ==
    IF pc = "done" THEN Some(0)
    ELSE IF pc = "panicked" THEN Some(101)
    ELSE IF pc = "aborted" THEN Some(134)
    ELSE None


\* run, lines 58-78: spawn the command, if one is given and no pid is.
Spawn ==
    /\ pc = "start"
    /\ IF target_pid = None /\ cfg.command
          THEN \E ok \in BOOLEAN :
                 IF ok
                    THEN /\ target_pid' = Some(ChildPid)
                         /\ child' = "running"
                         /\ procs' = procs \cup {ChildPid}
                         /\ pc' = "check_target"
                         /\ printed' = printed
                    ELSE /\ printed' = printed \cup {"failed to spawn"}
                         /\ pc' = "done"
                         /\ UNCHANGED <<target_pid, child, procs>>
          ELSE /\ pc' = "check_target"
               /\ UNCHANGED <<target_pid, child, procs, printed>>
    /\ UNCHANGED <<now, cfg, ret, term, elapsed, states, pids, total_time,
                   written, call, iter, hist, obs>>
    /\ UNCHANGED <<fdVars, tr, mc, gate, fcall>>

\* CheckTarget without the return of line 85: the message is printed and
\* run goes on to the loop.
CheckTargetFallsThrough ==
    /\ pc = "check_target"
    /\ printed' = IF IsSome(target_pid) /\ ~(Unwrap(target_pid) \in procs)
                     THEN printed \cup {"not found"} ELSE printed
    /\ pc' = "loop_top"
    /\ UNCHANGED <<now, cfg, ret, target_pid, child, term, elapsed, states, pids,
                   procs, total_time, written, call, iter, hist, obs>>
    /\ UNCHANGED <<fdVars, tr, mc, gate, fcall>>

\* run, lines 80-87: the pinned PID must exist at startup.
CheckTarget ==
    /\ pc = "check_target"
    /\ IF IsSome(target_pid) /\ ~proc_dir_exists(Unwrap(target_pid))
          THEN /\ printed' = printed \cup {"not found"}
               /\ pc' = "done"
          ELSE /\ pc' = "loop_top"
               /\ printed' = printed
    /\ UNCHANGED <<now, cfg, ret, target_pid, child, term, elapsed, states, pids,
                   procs, total_time, written, call, iter, hist, obs>>
    /\ UNCHANGED <<fdVars, tr, mc, gate, fcall>>

\* History: a monitor_iteration starts; obs counts those that start with the
\* terminate flag already set.
StartIteration == IF term THEN [obs EXCEPT !.started = @ + 1] ELSE obs

\* run, lines 119-139: the first vanish check, at the top of the loop, then
\* the call of monitor_iteration.
LoopTop ==
    /\ pc = "loop_top"
    /\ IF IsSome(target_pid) /\ ~proc_exists(Unwrap(target_pid))
          THEN /\ printed' = printed \cup {"disappeared, exiting"}
               /\ pc' = "exit_term"
               /\ ret' = ret
          ELSE /\ pc' = "collect"
               /\ ret' = "post_iter"
               /\ printed' = printed
    /\ obs' = IF IsSome(target_pid) /\ ~proc_exists(Unwrap(target_pid))
                 THEN obs ELSE StartIteration
    /\ UNCHANGED <<now, cfg, target_pid, child, term, elapsed, states, pids,
                   procs, total_time, written, call, iter, hist>>
    /\ UNCHANGED <<fdVars, tr, mc, gate, fcall>>

\* monitor_iteration, lines 196-200: collect_pids, then prune_states.
CollectAndPrune ==
    /\ pc = "collect"
    /\ LET pid_set == collect_pids(target_pid, cfg.target_uid)
       IN \E order \in Perms(pid_set), existing \in Perms(DOMAIN states) :
          \E ords \in [DOMAIN states -> UNION {Perms(S) : S \in SUBSET Fds}] :
            /\ \A p \in DOMAIN states : ords[p] \in Perms(DOMAIN states[p].fds)
            /\ LET r == prune_states(states, pid_set, existing, ords,
                                     [p \in DOMAIN states |-> process_name(p)],
                                     Timestamp(now))
                   gone == DOMAIN states \ DOMAIN r.states
               IN /\ states' = r.states
                  /\ written' = r.written
                  /\ pids' = order
                  /\ iter' = [pids |-> pid_set, skipped |-> {},
                              written |-> [p \in PIDs |-> 0],
                              finals |-> [p \in PIDs |-> CountBy(r.written, p, "prune_states")],
                              pruned |-> [p \in gone |-> states[p].fds]]
                  /\ hist' = [p \in PIDs |->
                                IF p \in gone
                                   THEN [hist[p] EXCEPT
                                           !.emitted = FALSE,
                                           !.replay = ReplayLog(@, p, r.written),
                                           !.last_ts = IF CountBy(r.written, p, "prune_states") > 0
                                                          THEN Some(Timestamp(now)) ELSE @]
                                   ELSE hist[p]]
    /\ pc' = "process"
    /\ call' = NoCall
    /\ UNCHANGED <<now, cfg, ret, target_pid, child, term, elapsed, procs,
                   total_time, obs, printed>>
    /\ UNCHANGED <<fdVars, tr, mc, gate, fcall>>

\* monitor_iteration, lines 201-214: process_pid for the next PID. When the
\* call attaches to a thread, the thread either stops, and the call returns,
\* or never does, and waitpid(target, None) never returns. A child that has
\* exited is a zombie: attaching to it fails and the call returns, and its
\* /proc/<pid>/fd lists nothing.
ProcessNext ==
    /\ pc = "process"
    /\ pids # <<>>
    /\ LET pid == Head(pids)
           is_new == pid \notin DOMAIN states
           state == IF is_new THEN DefaultProcState ELSE states[pid]
           stop_outcomes == IF pid = ChildPid /\ child = "exited"
                               THEN {TRUE} ELSE BOOLEAN
           fd_reads == IF pid = ChildPid /\ child = "exited" THEN {EmptyMap} ELSE FdReads
       IN \E proc_total \in JiffyReads, fds \in fd_reads, stops \in stop_outcomes :
          \E ord_prev \in Perms(DOMAIN state.fds), ord_cur \in Perms(DOMAIN fds) :
            LET r == process_pid(pid, state, RunCfg,
                                 ReadsOf(pid, proc_total, fds, ord_prev, ord_cur))
            IN /\ states' = [p \in DOMAIN states \cup {pid} |->
                               IF p = pid THEN r.state ELSE states[p]]
               /\ IF r.attached /\ ~stops
                     THEN /\ pc' = "stalled"
                          /\ written' = <<>>
                          /\ call' = NoCall
                          /\ UNCHANGED <<pids, iter, hist>>
                     ELSE /\ pc' = pc
                          /\ pids' = Tail(pids)
                          /\ written' = r.written
                          /\ call' = [pid |-> pid, is_new |-> is_new, usage |-> r.usage,
                                      skipped |-> r.skipped, first |-> ~hist[pid].emitted,
                                      prior_meta |-> hist[pid].had_meta,
                                      name |-> process_name(pid),
                                      cpu |-> IF IsSome(r.usage) THEN Unwrap(r.usage)[1] ELSE 0,
                                      prev_fds |-> state.fds,
                                      prev_ts |-> hist[pid].last_ts,
                                      stat |-> IF pid \in procs THEN Some(proc_total) ELSE None,
                                      total |-> Some(total_time),
                                      prev_proc_time |-> state.prev_proc_time,
                                      prev_total_time |-> state.prev_total_time,
                                      term |-> term,
                                      head |-> Len(pids) = Cardinality(iter.pids),
                                      prev_pending |-> state.pending_fd_events,
                                      prev_meta |-> state.metadata_written]
                          /\ iter' = [iter EXCEPT
                                        !.skipped = IF r.skipped THEN @ \cup {pid} ELSE @,
                                        !.written[pid] = @ + CountBy(r.written, pid, "process_pid")]
                          /\ hist' = [hist EXCEPT
                                        ![pid].emitted = @ \/ r.written # <<>>,
                                        ![pid].had_meta = @ \/ HasMeta(r.written),
                                        ![pid].replay = ReplayLog(@, pid, r.written),
                                        ![pid].last_ts = IF r.written # <<>>
                                                            THEN Some(Timestamp(now)) ELSE @]
    /\ UNCHANGED <<now, cfg, ret, target_pid, child, term, elapsed, procs,
                   total_time, obs, printed>>
    /\ UNCHANGED <<fdVars, tr, mc, gate, fcall>>

\* monitor_iteration returns to its caller.
IterationDone ==
    /\ pc = "process"
    /\ pids = <<>>
    /\ pc' = ret
    /\ obs' = IF obs.at # "none" THEN [obs EXCEPT !.iterated = TRUE] ELSE obs
    /\ written' = <<>> /\ call' = NoCall /\ iter' = NoIter
    /\ UNCHANGED <<now, cfg, ret, target_pid, child, term, elapsed, states, pids,
                   procs, total_time, hist, printed>>
    /\ UNCHANGED <<fdVars, tr, mc, gate, fcall>>

\* The terminate flag is seen set at the check point at.
Observe(at) == IF obs.at = "none" THEN [obs EXCEPT !.at = at] ELSE obs

\* run, lines 140-148: after the iteration, the child's try_wait or the
\* second vanish check.
PostIter ==
    /\ pc = "post_iter"
    /\ IF child # "none"
          THEN IF child = "exited"
                  THEN /\ child' = "reaped"
                       /\ procs' = procs \ {ChildPid}
                       /\ pc' = "exit_term"
                  ELSE /\ pc' = "term_check"
                       /\ UNCHANGED <<child, procs>>
          ELSE /\ pc' = IF IsSome(target_pid) /\ ~proc_dir_exists(Unwrap(target_pid))
                           THEN "exit_term" ELSE "term_check"
               /\ UNCHANGED <<child, procs>>
    /\ UNCHANGED <<now, cfg, ret, target_pid, term, elapsed, states, pids,
                   total_time, written, call, iter, hist, obs, printed>>
    /\ UNCHANGED <<fdVars, tr, mc, gate, fcall>>

\* run, lines 149-152: the check of term after the iteration.
TermCheck ==
    /\ pc = "term_check"
    /\ IF term
          THEN /\ obs' = Observe("after_iter")
               /\ pc' = "exit_term"
               /\ elapsed' = elapsed
          ELSE /\ pc' = "sleep"
               /\ elapsed' = 0
               /\ obs' = obs
    /\ UNCHANGED <<now, cfg, ret, target_pid, child, term, states, pids, procs,
                   total_time, written, call, iter, hist, printed>>
    /\ UNCHANGED <<fdVars, tr, mc, gate, fcall>>

\* run, lines 153-160: one turn of the sleep loop.
SleepQuantum ==
    /\ pc = "sleep"
    /\ IF elapsed < SleepMs
          THEN IF term
                  THEN /\ obs' = Observe("in_sleep")
                       /\ pc' = "done"
                       /\ UNCHANGED <<elapsed, now>>
                  ELSE /\ now + Min(QuantumMs, SleepMs - elapsed) <= MaxClockMs
                       /\ elapsed' = elapsed + Min(QuantumMs, SleepMs - elapsed)
                       /\ now' = now + Min(QuantumMs, SleepMs - elapsed)
                       /\ UNCHANGED <<pc, obs>>
          ELSE /\ pc' = "post_sleep"
               /\ UNCHANGED <<elapsed, obs, now>>
    /\ UNCHANGED <<cfg, ret, target_pid, child, term, states, pids, procs,
                   total_time, written, call, iter, hist, printed>>
    /\ UNCHANGED <<fdVars, tr, mc, gate, fcall>>

\* run, lines 161-163: the check of term after the sleep.
PostSleep ==
    /\ pc = "post_sleep"
    /\ IF term
          THEN /\ obs' = Observe("after_sleep")
               /\ pc' = "exit_term"
          ELSE /\ pc' = "loop_top"
               /\ obs' = obs
    /\ UNCHANGED <<now, cfg, ret, target_pid, child, term, elapsed, states, pids,
                   procs, total_time, written, call, iter, hist, printed>>
    /\ UNCHANGED <<fdVars, tr, mc, gate, fcall>>

\* run, lines 165-178: after the loop, the last iteration if term is set.
ExitTerm ==
    /\ pc = "exit_term"
    /\ IF term
          THEN /\ pc' = "collect"
               /\ ret' = "child_wait"
               /\ obs' = StartIteration
          ELSE /\ pc' = "child_wait"
               /\ ret' = ret
               /\ obs' = obs
    /\ UNCHANGED <<now, cfg, target_pid, child, term, elapsed, states, pids,
                   procs, total_time, written, call, iter, hist, printed>>
    /\ UNCHANGED <<fdVars, tr, mc, gate, fcall>>

\* run, lines 179-181: wait for the child, then return.
ChildWait ==
    /\ pc = "child_wait"
    /\ child # "running"
    /\ IF child = "none"
          THEN UNCHANGED <<child, procs, obs>>
          ELSE /\ child' = "reaped"
               /\ procs' = procs \ {ChildPid}
               /\ obs' = [obs EXCEPT !.waited = TRUE]
    /\ pc' = "done"
    /\ UNCHANGED <<now, cfg, ret, target_pid, term, elapsed, states, pids,
                   total_time, written, call, iter, hist, printed>>
    /\ UNCHANGED <<fdVars, tr, mc, gate, fcall>>

\* ------------------------------------------------------- the environment

\* The positions of run whose next step reads /proc or the child's status:
\* a change of the environment anywhere else is seen by the code exactly as
\* the same change made at the next of these positions.
EnvPoint == pc \in {"loop_top", "collect", "process", "post_iter", "child_wait"}

\* A process appears under /proc.
ProcStart ==
    /\ EnvPoint
    /\ ~cfg.command
    /\ \E p \in cfg.universe \ procs : procs' = procs \cup {p}
    /\ UNCHANGED <<now, cfg, pc, ret, target_pid, child, term, elapsed, states, pids,
                   total_time, written, call, iter, hist, obs, printed>>
    /\ UNCHANGED <<fdVars, tr, mc, gate, fcall>>

\* A process other than run's child leaves /proc.
ProcExit ==
    /\ EnvPoint
    /\ ~cfg.command
    /\ \E p \in procs : procs' = procs \ {p}
    /\ UNCHANGED <<now, cfg, pc, ret, target_pid, child, term, elapsed, states, pids,
                   total_time, written, call, iter, hist, obs, printed>>
    /\ UNCHANGED <<fdVars, tr, mc, gate, fcall>>

\* run's child exits; it stays under /proc until run reaps it. The sleep loop
\* can return from run (line 155), so an exit during the sleep is not always
\* seen at a later position and is a step of its own.
ChildExit ==
    /\ EnvPoint \/ pc = "sleep"
    /\ child = "running"
    /\ child' = "exited"
    /\ UNCHANGED <<now, cfg, pc, ret, target_pid, term, elapsed, states, pids, procs,
                   total_time, written, call, iter, hist, obs, printed>>
    /\ UNCHANGED <<fdVars, tr, mc, gate, fcall>>

\* /proc/stat's total jiffies advance.
Tick ==
    /\ EnvPoint
    /\ cfg.load # "idle"
    /\ total_time < MaxJiffies
    /\ total_time' = total_time + 1
    /\ UNCHANGED <<now, cfg, pc, ret, target_pid, child, term, elapsed, states, pids,
                   procs, written, call, iter, hist, obs, printed>>
    /\ UNCHANGED <<fdVars, tr, mc, gate, fcall>>

\* SIGINT: the ctrlc handler sets term.
Sigint ==
    /\ pc \in {"loop_top", "collect", "process", "post_iter", "term_check",
               "sleep", "post_sleep", "exit_term"}
    /\ ~term
    /\ term' = TRUE
    /\ UNCHANGED <<now, cfg, pc, ret, target_pid, child, elapsed, states, pids,
                   procs, total_time, written, call, iter, hist, obs, printed>>
    /\ UNCHANGED <<fdVars, tr, mc, gate, fcall>>

\* ----------------------------------------- the FD differ on its own

\* detect_fd_events called on a ProcState against an arbitrary reading of
\* /proc/<pid>/fd.
DetectFd ==
    /\ \E current \in FdMaps(DiffFds) :
       \E ordP \in Perms(DOMAIN fd_state.fds), ordC \in Perms(DOMAIN current) :
         LET d == detect_fd_events(fd_state, current, ordP, ordC)
         IN /\ fd_state' = d.state
            /\ fd_call' = Some([prev |-> fd_state.fds, cur |-> current, events |-> d.events,
                                 ord_prev |-> ordP, ord_cur |-> ordC])
    /\ UNCHANGED <<samplerVars, tr, mc, gate, fcall>>

InitFd == SamplerIdle /\ FdIdle /\ TraceIdle /\ CacheIdle /\ GateIdle /\ CallIdle
NextFd == DetectFd
SpecFd == InitFd /\ [][NextFd]_vars

\* --------------------------------- stacktrace.rs: capture_stack_trace

\* max_frames, as capture_stack_trace passes it to get_stack_trace.
MaxFrames == 32
\* The values a saved frame pointer can read as are 0 .. MaxAddr.
MaxAddr == 2
Addrs == 0 .. MaxAddr

\* capture_stack_trace(tid) is called.
TrCall ==
    /\ tr.phase \in {"idle", "returned"}
    /\ \E tid \in PIDs : tr' = [NoTrace EXCEPT !.phase = "attach", !.tid = tid]
    /\ UNCHANGED <<samplerVars, fdVars, mc, gate, fcall>>

\* ptrace::attach(target)?
TrAttach ==
    /\ tr.phase = "attach"
    /\ \E ok \in BOOLEAN :
         tr' = IF ok THEN [tr EXCEPT !.attach_ok = TRUE, !.phase = "waitpid"]
                     ELSE [tr EXCEPT !.result = "err", !.phase = "returned"]
    /\ UNCHANGED <<samplerVars, fdVars, mc, gate, fcall>>

\* waitpid(target, None)?
TrWaitpid ==
    /\ tr.phase = "waitpid"
    /\ \E ok \in BOOLEAN :
         tr' = IF ok THEN [tr EXCEPT !.phase = "getregs"]
                     ELSE [tr EXCEPT !.result = "err", !.phase = "returned"]
    /\ UNCHANGED <<samplerVars, fdVars, mc, gate, fcall>>

\* get_stack_trace, lines 226-229: the register read and the first address.
TrGetRegs ==
    /\ tr.phase = "getregs"
    /\ \E ok \in BOOLEAN, rbp \in Addrs :
         tr' = IF ok THEN [tr EXCEPT !.n = 1, !.rbp = rbp, !.phase = "walk"]
                     ELSE [tr EXCEPT !.result = "err", !.phase = "detach"]
    /\ UNCHANGED <<samplerVars, fdVars, mc, gate, fcall>>

\* A frame walk whose loop runs once more than max_frames times.
TrWalkOneMore ==
    /\ tr.phase = "walk"
    /\ IF tr.iters > MaxFrames \/ tr.rbp = 0
          THEN tr' = [tr EXCEPT !.result = "ok", !.phase = "detach"]
          ELSE \E ok_rip \in BOOLEAN, ok_rbp \in BOOLEAN, next_rbp \in Addrs :
                 tr' = IF ~ok_rip
                          THEN [tr EXCEPT !.result = "err", !.phase = "detach"]
                       ELSE IF ~ok_rbp
                          THEN [tr EXCEPT !.n = @ + 1, !.result = "err", !.phase = "detach"]
                       ELSE IF next_rbp = 0
                          THEN [tr EXCEPT !.n = @ + 1, !.result = "ok", !.phase = "detach"]
                       ELSE [tr EXCEPT !.n = @ + 1, !.rbp = next_rbp, !.iters = @ + 1]
    /\ UNCHANGED <<samplerVars, fdVars, mc, gate, fcall>>

\* get_stack_trace, lines 231-244: one turn of the frame walk, or its end.
TrWalk ==
    /\ tr.phase = "walk"
    /\ IF tr.iters >= MaxFrames \/ tr.rbp = 0
          THEN tr' = [tr EXCEPT !.result = "ok", !.phase = "detach"]
          ELSE \E ok_rip \in BOOLEAN, ok_rbp \in BOOLEAN, next_rbp \in Addrs :
                 tr' = IF ~ok_rip
                          THEN [tr EXCEPT !.result = "err", !.phase = "detach"]
                       ELSE IF ~ok_rbp
                          THEN [tr EXCEPT !.n = @ + 1, !.result = "err", !.phase = "detach"]
                       ELSE IF next_rbp = 0
                          THEN [tr EXCEPT !.n = @ + 1, !.result = "ok", !.phase = "detach"]
                       ELSE [tr EXCEPT !.n = @ + 1, !.rbp = next_rbp, !.iters = @ + 1]
    /\ UNCHANGED <<samplerVars, fdVars, mc, gate, fcall>>

\* capture_stack_trace, lines 269-272: ptrace::detach, whose failure is only
\* logged, then the return of the closure's result.
TrDetach ==
    /\ tr.phase = "detach"
    /\ tr' = [tr EXCEPT !.detached = TRUE, !.phase = "returned"]
    /\ UNCHANGED <<samplerVars, fdVars, mc, gate, fcall>>

InitTrace == SamplerIdle /\ FdIdle /\ TraceIdle /\ CacheIdle /\ GateIdle /\ CallIdle
NextTrace ==
    \/ TrCall
    \/ TrAttach
    \/ TrWaitpid
    \/ TrGetRegs
    \/ TrWalk
    \/ TrDetach
SpecTrace == InitTrace /\ [][NextTrace]_vars

\* The capture with its steps taken whenever they can be: get_stack_trace and
\* the detach after it are straight-line code of one thread.
SpecTraceLive ==
    /\ InitTrace /\ [][NextTrace]_vars
    /\ WF_vars(TrGetRegs) /\ WF_vars(TrWalk) /\ WF_vars(TrDetach)

\* ------------------------------------------ stacktrace.rs: get_module

\* The file's modification times are 1 .. MaxMtime.
MaxMtime == 2
\* What the path can name and, for a regular file, what it holds: a file
\* that cannot be read, one without the ELF magic, an ELF file Loader::new
\* rejects, a non-PIC executable, a PIC (ET_DYN) object.
Kinds == {"missing", "special", "regular"}
Contents == {"unreadable", "text", "badelf", "exec", "dyn"}
Files == [kind : Kinds, mtime : 1 .. MaxMtime, content : Contents]

\* Lines 50-101 of get_module: the magic check, Loader::new and the PIC
\* classification of the file as it is now.
LoadModule(file) ==
    IF file.content \in {"exec", "dyn"}
       THEN Some([is_pic |-> file.content = "dyn"])
       ELSE None

\* A get_module that returns whatever entry the cache holds.
GetModuleAnyMtime(cache, file) ==
    IF file.kind # "regular" THEN [cache |-> cache, result |-> None, loaded |-> FALSE]
    ELSE IF IsSome(cache)
       THEN [cache |-> cache, result |-> Unwrap(cache).module, loaded |-> FALSE]
    ELSE [cache |-> Some([module |-> LoadModule(file), mtime |-> Some(file.mtime)]),
          result |-> LoadModule(file), loaded |-> TRUE]

\* get_module(path): cache is MODULE_CACHE's entry for the path, if any. The
\* result is the entry after the call, the module returned and whether the
\* file was loaded.
get_module(cache, file) ==
    IF file.kind # "regular" THEN [cache |-> cache, result |-> None, loaded |-> FALSE]
    ELSE IF IsSome(cache) /\ Unwrap(cache).mtime = Some(file.mtime)
       THEN [cache |-> cache, result |-> Unwrap(cache).module, loaded |-> FALSE]
    ELSE [cache |-> Some([module |-> LoadModule(file), mtime |-> Some(file.mtime)]),
          result |-> LoadModule(file), loaded |-> TRUE]

\* get_module is called on the path.
GetModule ==
    /\ LET r == get_module(mc.cache, mc.file)
       IN mc' = [file |-> mc.file, cache |-> r.cache,
                 last |-> Some([file |-> mc.file, before |-> mc.cache,
                                result |-> r.result, loaded |-> r.loaded])]
    /\ UNCHANGED <<samplerVars, fdVars, tr, gate, fcall>>

\* The file changes: its kind, its mtime, its content, or several of them.
FileChange ==
    /\ \E f \in Files : f # mc.file /\ mc' = [mc EXCEPT !.file = f]
    /\ UNCHANGED <<samplerVars, fdVars, tr, gate, fcall>>

InitCache == SamplerIdle /\ FdIdle /\ TraceIdle /\ CacheIdle /\ GateIdle /\ CallIdle
NextCache ==
    \/ GetModule
    \/ FileChange
SpecCache == InitCache /\ [][NextCache]_vars

\* ------------------------------------------------ the stacktrace gate

\* The CPU figures and thresholds build_log_entry is called with.
CpuFigures == {0, 1, 50, 100}
Thresholds == {0, 1, 100}

\* What the captures return for a PID: the native traces of its one thread
\* (captured, failed, or no thread listed) and the Python traces.
GateReads(pid, c_traces, py_traces) ==
    [name |-> Some(CommOf(pid)), vsz |-> Some(128), swap |-> Some(0),
     cmdline |-> Some("cmdline"), env |-> Some("env"), now |-> 0,
     c_traces |-> c_traces, py_traces |-> py_traces, py_order |-> <<pid>>]

\* build_log_entry called, in both of its copies, with the same arguments.
GateBuild ==
    /\ \E pid \in PIDs, cpu \in CpuFigures, threshold \in Thresholds, written_before \in BOOLEAN :
       \E c_traces \in {<<>>, <<[tid |-> pid, stacktrace |-> Some("native")]>>,
                        <<[tid |-> pid, stacktrace |-> None]>>},
          py_traces \in {None, Some([t \in {pid} |-> "py"])} :
         LET rd == GateReads(pid, c_traces, py_traces)
             state == [DefaultProcState EXCEPT !.metadata_written = written_before]
         IN gate' = Some([cpu |-> cpu, threshold |-> threshold,
                          run |-> build_log_entry(pid, state, cpu, 64, <<>>, threshold, rd),
                          main |-> main_build_log_entry(pid, cpu, 64, <<>>, threshold, rd)])
    /\ UNCHANGED <<samplerVars, fdVars, tr, mc, fcall>>

InitGate == SamplerIdle /\ FdIdle /\ TraceIdle /\ CacheIdle /\ GateIdle /\ CallIdle
NextGate == GateBuild
SpecGate == InitGate /\ [][NextGate]_vars

\* ------------------------------------ procinfo.rs: compute_cpu_percent

\* The largest jiffy delta of a call.
MaxDelta == 7

\* One call of compute_cpu_percent, on any deltas and CPU count.
CpuPercentCall ==
    /\ fcall = None
    /\ \E delta_proc \in 0 .. MaxDelta, delta_total \in 0 .. MaxDelta, num_cpus \in 1 .. NumCpus :
         fcall' = Some([op |-> "compute_cpu_percent",
                        delta_proc |-> delta_proc, delta_total |-> delta_total,
                        num_cpus |-> num_cpus,
                        percent |-> compute_cpu_percent(delta_proc, delta_total, num_cpus)])
    /\ UNCHANGED <<samplerVars, fdVars, tr, mc, gate>>

InitCpu == SamplerIdle /\ FdIdle /\ TraceIdle /\ CacheIdle /\ GateIdle /\ CallIdle
NextCpu == CpuPercentCall
SpecCpu == InitCpu /\ [][NextCpu]_vars

\* --------------------------------- run.rs: the merge of the two captures

\* The largest TID of a captured process.
MaxTid == 3
Tids == 1 .. MaxTid

\* The TIDs of S in ascending order, as capture_c_stack_traces sorts them.
RECURSIVE Ascending(_)
Ascending(S) ==
    IF S = {} THEN <<>>
    ELSE LET m == CHOOSE x \in S : \A y \in S : x <= y
         IN <<m>> \o Ascending(S \ {m})

\* How capture_stack_trace(tid) can end: with the trace, or with the error
\* of the attach, of the wait, or of a read during the walk.
Outcomes == {"ok", "attach_err", "waitpid_err", "walk_err"}

RECURSIVE CaptureEach(_, _)
CaptureEach(tids, outcome) ==
    IF tids = <<>> THEN <<>>
    ELSE <<[tid |-> Head(tids),
            stacktrace |-> IF outcome[Head(tids)] = "ok" THEN Some("native") ELSE None]>>
         \o CaptureEach(Tail(tids), outcome)

\* A capture loop that gives up at the first TID whose capture fails.
RECURSIVE CaptureUntilFailure(_, _)
CaptureUntilFailure(listing, outcome) ==
    LET tids == IF IsSome(listing)
                   THEN Ascending({Unwrap(listing)[i] : i \in DOMAIN Unwrap(listing)})
                   ELSE <<>>
        failed == {i \in DOMAIN tids : outcome[tids[i]] # "ok"}
        upto == IF failed = {} THEN Len(tids)
                ELSE (CHOOSE i \in failed : \A j \in failed : i <= j) - 1
    IN CaptureEach(SubSeq(tids, 1, upto), outcome)

\* capture_c_stack_traces(pid): listing is what read_dir of /proc/<pid>/task
\* yields, in directory order (None for Err), outcome how the capture of
\* each TID ends.
capture_c_stack_traces(listing, outcome) ==
    LET tids == IF IsSome(listing)
                   THEN Ascending({Unwrap(listing)[i] : i \in DOMAIN Unwrap(listing)})
                   ELSE <<>>
    IN CaptureEach(tids, outcome)

\* What capture_c_stack_traces can return for the TIDs S.
CTraces(S) ==
    { capture_c_stack_traces(Some(Ascending(S)), outcome) : outcome \in [S -> {"ok", "attach_err"}] }

\* One call of capture_c_stack_traces.
CaptureCall ==
    /\ fcall = None
    /\ \E S \in SUBSET Tids, readable \in BOOLEAN :
       \E order \in Perms(S), outcome \in [S -> Outcomes] :
         LET listing == IF readable THEN Some(order) ELSE None
         IN fcall' = Some([op |-> "capture", listing |-> listing, outcome |-> outcome,
                           traces |-> capture_c_stack_traces(listing, outcome)])
    /\ UNCHANGED <<samplerVars, fdVars, tr, mc, gate>>

InitCapture == SamplerIdle /\ FdIdle /\ TraceIdle /\ CacheIdle /\ GateIdle /\ CallIdle
NextCapture == CaptureCall
SpecCapture == InitCapture /\ [][NextCapture]_vars

\* One merge of a native and a Python capture, lines 414-441 of
\* build_log_entry.
MergeCall ==
    /\ fcall = None
    /\ \E name \in {"sh", "python", "python3"}, S \in SUBSET Tids, P \in SUBSET Tids, py_ok \in BOOLEAN :
       \E c_traces \in CTraces(S), py_order \in Perms(P) :
         LET rd == [c_traces |-> c_traces,
                    py_traces |-> IF py_ok THEN Some([t \in P |-> "py"]) ELSE None,
                    py_order |-> py_order]
         IN fcall' = Some([op |-> "merge", name |-> name, c_traces |-> c_traces,
                           py_traces |-> rd.py_traces,
                           threads |-> CapturedThreads(name, rd)])
    /\ UNCHANGED <<samplerVars, fdVars, tr, mc, gate>>

InitMerge == SamplerIdle /\ FdIdle /\ TraceIdle /\ CacheIdle /\ GateIdle /\ CallIdle
NextMerge == MergeCall
SpecMerge == InitMerge /\ [][NextMerge]_vars

\* ------------------------------------- log.rs: write_log, read_log_entries

\* A file's bytes are modelled as a sequence of tokens [k, v]: a serialized
\* field (k its name, v its value), a newline, a MsgPack map header (v the
\* number of fields that follow) or a zstd frame (v the tokens it holds).
Field(k, v) == [k |-> k, v |-> v]
Newline == [k |-> "\n", v |-> 0]
MapHeader(n) == [k |-> "map", v |-> n]
Frame(payload) == [k |-> "frame", v |-> payload]

\* The number of entries written to one file.
MaxEntries == 2

\* The entries of one PID's file: the optional fields present or absent.
LogEntries ==
    { [pid |-> 1, process_name |-> "sh", cmdline |-> c, fd_events |-> f, threads |-> t] :
        c \in {None, Some("cmdline")},
        f \in {None, Some(<<FdLogEvent(0, "open", "a")>>)},
        t \in {<<>>, <<ThreadInfo(1, None, Some("py"))>>} }

\* Serialize for LogEntry, lines 46-61: the fields in declaration order; an
\* Option that is None and an empty threads vector are skipped.
SerializeFields(entry) ==
    <<Field("pid", entry.pid), Field("process_name", entry.process_name)>>
    \o (IF entry.cmdline = None THEN <<>> ELSE <<Field("cmdline", Unwrap(entry.cmdline))>>)
    \o (IF entry.fd_events = None THEN <<>> ELSE <<Field("fd_events", Unwrap(entry.fd_events))>>)
    \o (IF entry.threads = <<>> THEN <<>> ELSE <<Field("threads", entry.threads)>>)

\* serde_json::to_writer followed by write_all(b"\n").
JsonLine(entry) == SerializeFields(entry) \o <<Newline>>

\* rmp_serde::encode::write_named: a map header, then the named fields.
MsgpackRecord(entry) ==
    <<MapHeader(Len(SerializeFields(entry)))>> \o SerializeFields(entry)

\* The path write_log builds, as the file name's dot-separated parts.
LogPath(pid, use_msgpack, compress) ==
    <<pid, IF use_msgpack THEN "msgpacks" ELSE "jsonl">>
    \o (IF compress THEN <<"zst">> ELSE <<>>)

\* write_log(dir, entry, use_msgpack, compress) on the file's bytes: the
\* record is appended, inside a zstd frame of its own when compress is set.
write_log(bytes, entry, use_msgpack, compress) ==
    LET record == IF use_msgpack THEN MsgpackRecord(entry) ELSE JsonLine(entry)
    IN IF compress THEN bytes \o <<Frame(record)>> ELSE bytes \o record

\* A zstd decoder that stops at the end of the first frame.
DecodeFirstFrame(bytes) == IF bytes = <<>> THEN <<>> ELSE Head(bytes).v

\* zstd::Decoder over the file: the frames' contents, one after the other.
RECURSIVE zstd_decode(_)
zstd_decode(bytes) ==
    IF bytes = <<>> THEN <<>> ELSE Head(bytes).v \o zstd_decode(Tail(bytes))

KeysOf(fields) == {fields[i].k : i \in DOMAIN fields}
ValueOf(fields, k) == fields[CHOOSE i \in DOMAIN fields : fields[i].k = k].v

\* Deserialize for LogEntry: pid and process_name are required, a missing
\* Option is None and a missing threads is the default, empty. The result
\* is None when the record does not deserialize.
Deserialize(fields) ==
    IF ~({"pid", "process_name"} \subseteq KeysOf(fields)) THEN None
    ELSE Some([pid |-> ValueOf(fields, "pid"),
               process_name |-> ValueOf(fields, "process_name"),
               cmdline |-> IF "cmdline" \in KeysOf(fields)
                              THEN Some(ValueOf(fields, "cmdline")) ELSE None,
               fd_events |-> IF "fd_events" \in KeysOf(fields)
                                THEN Some(ValueOf(fields, "fd_events")) ELSE None,
               threads |-> IF "threads" \in KeysOf(fields)
                              THEN ValueOf(fields, "threads") ELSE <<>>])

\* The tokens of stream up to its first newline, and the index after it
\* (BufRead::lines).
RECURSIVE LineLen(_)
LineLen(stream) ==
    IF stream = <<>> \/ Head(stream).k = "\n" THEN 0 ELSE 1 + LineLen(Tail(stream))

\* The jsonl branch of read_log_entries, lines 155-168: one entry per
\* non-empty line; the result is None for Err.
RECURSIVE ReadJsonl(_, _)
ReadJsonl(stream, entries) ==
    IF stream = <<>> THEN Some(entries)
    ELSE LET n == LineLen(stream)
             line == SubSeq(stream, 1, n)
             rest == SubSeq(stream, Min(n + 2, Len(stream) + 1), Len(stream))
         IN IF line = <<>> THEN ReadJsonl(rest, entries)
            ELSE IF Deserialize(line) = None THEN None
            ELSE ReadJsonl(rest, Append(entries, Unwrap(Deserialize(line))))

\* The msgpacks branch of read_log_entries, lines 140-154: records are read
\* until the stream ends; an end of stream at or inside a record ends the
\* loop, any other decoding error is returned.
RECURSIVE ReadMsgpacks(_, _)
ReadMsgpacks(stream, entries) ==
    IF stream = <<>> THEN Some(entries)
    ELSE IF Head(stream).k # "map" THEN None
    ELSE LET n == Head(stream).v
         IN IF Len(stream) < n + 1 THEN Some(entries)
            ELSE LET record == SubSeq(stream, 2, n + 1)
                     rest == SubSeq(stream, n + 2, Len(stream))
                 IN IF Deserialize(record) = None THEN None
                    ELSE ReadMsgpacks(rest, Append(entries, Unwrap(Deserialize(record))))

\* read_log_entries(path): the format is taken from the file name.
read_log_entries(path, bytes) ==
    LET is_zst == path[Len(path)] = "zst"
        ext == IF is_zst THEN path[Len(path) - 1] ELSE path[Len(path)]
        stream == IF is_zst THEN zstd_decode(bytes) ELSE bytes
    IN IF ext = "msgpacks" THEN ReadMsgpacks(stream, <<>>) ELSE ReadJsonl(stream, <<>>)

\* A log file of one of the four formats, empty to start with.
InitLog ==
    /\ SamplerIdle /\ FdIdle /\ TraceIdle /\ CacheIdle /\ GateIdle
    /\ \E use_msgpack \in BOOLEAN, compress \in BOOLEAN :
         fcall = Some([op |-> "log", use_msgpack |-> use_msgpack, compress |-> compress,
                       path |-> LogPath(1, use_msgpack, compress),
                       bytes |-> <<>>, entries |-> <<>>])

\* One more write_log call on the file.
WriteLog ==
    /\ IsSome(fcall)
    /\ Unwrap(fcall).op = "log"
    /\ Len(Unwrap(fcall).entries) < MaxEntries
    /\ \E entry \in LogEntries :
         fcall' = Some([Unwrap(fcall) EXCEPT
                          !.bytes = write_log(@, entry, Unwrap(fcall).use_msgpack,
                                              Unwrap(fcall).compress),
                          !.entries = Append(@, entry)])
    /\ UNCHANGED <<samplerVars, fdVars, tr, mc, gate>>

NextLog == WriteLog
SpecLog == InitLog /\ [][NextLog]_vars

\* --------------------------- config.rs: merge_config; run.rs: the format

\* The values of output.format in a configuration file.
Formats == {"json", "jsonl", "json.zst", "jsonl.zst",
            "msgpack", "msgpacks", "msgpack.zst", "msgpacks.zst"}

\* merge_config(cfg, args), lines 117-137, on the output section: args.output
\* overrides output.path, and a missing path or compress gets its default.
merge_config(output, args_output) ==
    LET path == IF IsSome(args_output) THEN args_output ELSE output.path
    IN [format |-> output.format,
        path |-> IF path = None THEN Some("/tmp/fuzmon") ELSE path,
        compress |-> IF output.compress = None THEN Some(TRUE) ELSE output.compress]

\* run, lines 36-43: the format with its aliases resolved.
NormalFormat(format) ==
    LET f == OrElse(format, "jsonl.zst")
    IN CASE f = "json" -> "jsonl"
         [] f = "json.zst" -> "jsonl.zst"
         [] f = "msgpack" -> "msgpacks"
         [] f = "msgpack.zst" -> "msgpacks.zst"
         [] OTHER -> f

\* format.ends_with(".zst")
EndsWithZst(format) == format \in {"jsonl.zst", "msgpacks.zst"}

\* run, lines 22-48: what the writer is set up with for a merged
\* configuration.
OutputSetup(output) ==
    [use_msgpack |-> NormalFormat(output.format) \in {"msgpacks", "msgpacks.zst"},
     compress |-> IF IsSome(output.compress) THEN Unwrap(output.compress)
                  ELSE EndsWithZst(NormalFormat(output.format)),
     dir |-> output.path]

\* run is started with some output section and some -o argument.
SetupCall ==
    /\ fcall = None
    /\ \E format \in {None} \cup {Some(f) : f \in Formats},
          compress \in {None, Some(TRUE), Some(FALSE)},
          path \in {None, Some("/var/log/fuzmon")},
          args_output \in {None, Some("/tmp/b")} :
         LET output == [format |-> format, path |-> path, compress |-> compress]
             setup == OutputSetup(merge_config(output, args_output))
         IN fcall' = Some([op |-> "setup", output |-> output, args_output |-> args_output,
                           setup |-> setup,
                           file |-> LogPath(1, setup.use_msgpack, setup.compress)])
    /\ UNCHANGED <<samplerVars, fdVars, tr, mc, gate>>

InitSetup == SamplerIdle /\ FdIdle /\ TraceIdle /\ CacheIdle /\ GateIdle /\ CallIdle
NextSetup == SetupCall
SpecSetup == InitSetup /\ [][NextSetup]_vars

\* ------------------------------------------ stacktrace.rs: describe_addr
\* Addresses are u64 with wrapping arithmetic, modelled at AddrWidth bits.
\* The loader is the addr2line crate: a relative address base and the set of
\* file addresses that have a symbol; the description of a probe is the file
\* address that was looked up.
AddrSpace == 2 ^ AddrWidth
U64s == 0 .. AddrSpace - 1
wrapping_sub(a, b) == (a - b + AddrSpace) % AddrSpace
wrapping_add(a, b) == (a + b) % AddrSpace

Loaders ==
    { [base |-> 0, syms |-> U64s],
      [base |-> 1, syms |-> {0}],
      [base |-> 1, syms |-> {}] }

find(loader, probe) == IF probe \in loader.syms THEN Some(probe) ELSE None

DescribeInclusiveEnd(loader, info, addr, is_pic) ==
    IF addr < info.start \/ addr > info.end THEN None
    ELSE LET probe == IF is_pic
                      THEN wrapping_add(wrapping_sub(addr, info.start), info.offset)
                      ELSE addr
         IN find(loader, wrapping_sub(probe, loader.base))

describe_addr(loader, info, addr, is_pic) ==
    IF addr < info.start \/ addr >= info.end THEN None
    ELSE LET probe == IF is_pic
                      THEN wrapping_add(wrapping_sub(addr, info.start), info.offset)
                      ELSE addr
         IN find(loader, wrapping_sub(probe, loader.base))

DescribeCall ==
    /\ fcall = None
    /\ \E loader \in Loaders, start \in U64s, end \in U64s, offset \in U64s,
          addr \in U64s, is_pic \in BOOLEAN :
         LET info == [start |-> start, end |-> end, offset |-> offset]
         IN fcall' = Some([op |-> "describe", loader |-> loader, info |-> info,
                           addr |-> addr, is_pic |-> is_pic,
                           result |-> describe_addr(loader, info, addr, is_pic)])
    /\ UNCHANGED <<samplerVars, fdVars, tr, mc, gate>>

InitDescribe == SamplerIdle /\ FdIdle /\ TraceIdle /\ CacheIdle /\ GateIdle /\ CallIdle
NextDescribe == DescribeCall
SpecDescribe == InitDescribe /\ [][NextDescribe]_vars

\* ------------------------------------------- stacktrace.rs: load_loaders
\* A line of /proc/<pid>/maps: an address range, the file offset and the
\* path, which is missing on an anonymous mapping.  The mappings of one
\* address space do not overlap.
MapAddrs == 0 .. MaxMapAddr
MapOffsets == {0, 1}
MapRanges == {rg \in MapAddrs \X MapAddrs : rg[1] < rg[2]}
Disjoint(S) == \A x, y \in S : x = y \/ x[2] <= y[1] \/ y[2] <= x[1]
MapLine(rg, a) == [start |-> rg[1], end |-> rg[2], offset |-> a[1], path |-> a[2]]

GroupFirstOffset(infos, line) ==
    IF line.path = None THEN infos
    ELSE LET path == Unwrap(line.path)
             entry == IF path \in DOMAIN infos THEN infos[path]
                      ELSE [start |-> line.start, end |-> line.end, offset |-> line.offset]
             lower == IF line.start < entry.start
                      THEN [entry EXCEPT !.start = line.start]
                      ELSE entry
             upper == IF line.end > lower.end THEN [lower EXCEPT !.end = line.end] ELSE lower
         IN [q \in DOMAIN infos \cup {path} |-> IF q = path THEN upper ELSE infos[q]]

\* One turn of the loop over maps.lines().
GroupLine(infos, line) ==
    IF line.path = None THEN infos
    ELSE LET path == Unwrap(line.path)
             entry == IF path \in DOMAIN infos THEN infos[path]
                      ELSE [start |-> line.start, end |-> line.end, offset |-> line.offset]
             lower == IF line.start < entry.start
                      THEN [entry EXCEPT !.start = line.start, !.offset = line.offset]
                      ELSE entry
             upper == IF line.end > lower.end THEN [lower EXCEPT !.end = line.end] ELSE lower
         IN [q \in DOMAIN infos \cup {path} |-> IF q = path THEN upper ELSE infos[q]]

RECURSIVE GroupLines(_, _)
GroupLines(infos, lines) ==
    IF lines = <<>> THEN infos
    ELSE GroupLines(GroupLine(infos, Head(lines)), Tail(lines))

\* The modules in the iteration order ord of the infos map; loadable are the
\* paths for which get_module returns a module.
RECURSIVE ModulesOf(_, _, _)
ModulesOf(infos, loadable, ord) ==
    IF ord = <<>> THEN <<>>
    ELSE IF Head(ord) \in loadable
         THEN <<[path |-> Head(ord), info |-> infos[Head(ord)]]>>
              \o ModulesOf(infos, loadable, Tail(ord))
         ELSE ModulesOf(infos, loadable, Tail(ord))

load_loaders(lines, loadable, ord) ==
    ModulesOf(GroupLines(EmptyMap, lines), loadable, ord)

LoadersCall ==
    /\ fcall = None
    /\ \E S \in SUBSET MapRanges :
         /\ Disjoint(S)
         /\ \E attr \in [S -> MapOffsets \X ({None} \cup {Some(q) : q \in Paths})],
               order \in Perms(S), loadable \in {Paths, {"a"}} :
              LET lines == [i \in 1 .. Cardinality(S) |-> MapLine(order[i], attr[order[i]])]
              IN \E ord \in Perms(DOMAIN GroupLines(EmptyMap, lines)) :
                   fcall' = Some([op |-> "loaders", lines |-> lines, loadable |-> loadable,
                                  modules |-> load_loaders(lines, loadable, ord)])
    /\ UNCHANGED <<samplerVars, fdVars, tr, mc, gate>>

InitLoaders == SamplerIdle /\ FdIdle /\ TraceIdle /\ CacheIdle /\ GateIdle /\ CallIdle
NextLoaders == LoadersCall
SpecLoaders == InitLoaders /\ [][NextLoaders]_vars

\* ---------------------------------------- report.rs: write_chrome_trace
\* A frame is its name; a log entry is its timestamp in microseconds, its pid
\* and its threads.  events is kept as a bag: the spans left at the end are
\* drained in the iteration order of a HashMap.
TraceStacks == {<<>>, <<"f">>, <<"g">>, <<"f", "g">>}
TraceThreads ==
    {<<>>} \cup
    { <<[tid |-> 1, stacktrace |-> st, python_stacktrace |-> py]>> :
        st \in {None} \cup {Some(x) : x \in TraceStacks},
        py \in {None, Some(<<"f">>)} }

Complete(span, tid, ts) ==
    [name |-> span.name, ph |-> "X", pid |-> span.pid, tid |-> tid, ts |-> span.start,
     dur |-> IF ts - span.start <= 0 THEN 1 ELSE ts - span.start]

\* The loop that closes the spans at and beyond the current depth.
RECURSIVE CloseBeyond(_, _, _, _)
CloseBeyond(st, tid, depth, ts) ==
    IF <<tid, depth>> \in DOMAIN st.active
    THEN CloseBeyond([active |-> MapRemove(st.active, <<tid, depth>>),
                      events |-> st.events (+) SetToBag({Complete(st.active[<<tid, depth>>], tid, ts)})],
                     tid, depth + 1, ts)
    ELSE st

\* The loop over the frames, from index idx (0-based) on.
RECURSIVE OpenFrames(_, _, _, _, _, _)
OpenFrames(st, tid, frames, idx, pid, ts) ==
    IF idx >= Len(frames) THEN st
    ELSE LET name == frames[idx + 1]
             key == <<tid, idx>>
             span == [name |-> name, start |-> ts, pid |-> pid]
             next == IF key \in DOMAIN st.active
                     THEN IF st.active[key].name = name THEN st
                          ELSE [active |-> MapPut(st.active, key, span),
                                events |-> st.events (+) SetToBag({Complete(st.active[key], tid, ts)})]
                     ELSE [st EXCEPT !.active = MapPut(st.active, key, span)]
         IN OpenFrames(next, tid, frames, idx + 1, pid, ts)

handle_frames(tid, frames, pid, ts, st) ==
    IF frames = <<>> THEN st
    ELSE OpenFrames(CloseBeyond(st, tid, Len(frames), ts), tid, frames, 0, pid, ts)

RECURSIVE TraceThreadsOf(_, _, _)
TraceThreadsOf(st, e, k) ==
    IF k > Len(e.threads) THEN st
    ELSE LET t == e.threads[k]
             c == IF IsSome(t.stacktrace)
                  THEN handle_frames(t.tid * 2, Unwrap(t.stacktrace), e.pid, e.timestamp, st)
                  ELSE st
             py == IF IsSome(t.python_stacktrace)
                   THEN handle_frames(t.tid * 2 + 1, Unwrap(t.python_stacktrace), e.pid,
                                      e.timestamp, c)
                   ELSE c
         IN TraceThreadsOf(py, e, k + 1)

Drain(st, final_ts) ==
    [active |-> EmptyMap,
     events |-> st.events (+) BagOfAll(LAMBDA key : Complete(st.active[key], key[1], final_ts),
                                       SetToBag(DOMAIN st.active))]

RECURSIVE TraceEntries(_, _, _)
TraceEntries(st, sorted, i) ==
    IF i > Len(sorted) THEN st
    ELSE IF sorted[i].threads = <<>> THEN TraceEntries(st, sorted, i + 1)
    ELSE LET scanned == TraceThreadsOf(st, sorted[i], 1)
         IN TraceEntries(IF i = Len(sorted) THEN Drain(scanned, sorted[i].timestamp)
                                            ELSE scanned,
                         sorted, i + 1)

\* Vec::sort_by_key on the timestamp: a stable sort.
RECURSIVE InsertByTs(_, _)
InsertByTs(sorted, e) ==
    IF sorted = <<>> THEN <<e>>
    ELSE IF e.timestamp < Head(sorted).timestamp THEN <<e>> \o sorted
    ELSE <<Head(sorted)>> \o InsertByTs(Tail(sorted), e)

RECURSIVE SortByTs(_, _)
SortByTs(sorted, entries) ==
    IF entries = <<>> THEN sorted
    ELSE SortByTs(InsertByTs(sorted, Head(entries)), Tail(entries))

\* The scan of write_chrome_trace; the file is written when events is not
\* empty.
write_chrome_trace(entries) ==
    IF entries = <<>> THEN [active |-> EmptyMap, events |-> EmptyBag]
    ELSE TraceEntries([active |-> EmptyMap, events |-> EmptyBag],
                      SortByTs(<<>>, entries), 1)

\* write_trace: whether <pid>_trace.json exists afterwards, in an output
\* directory that did not hold it before.
write_trace(entries) == write_chrome_trace(entries).events # EmptyBag

TraceCall ==
    /\ fcall = None
    /\ \E n \in 0 .. MaxTraceEntries, rev \in BOOLEAN :
       \E threads \in [1 .. n -> TraceThreads] :
         LET entries == [i \in 1 .. n |->
                           [timestamp |-> IF rev THEN n + 1 - i ELSE i, pid |-> 1,
                            threads |-> threads[i]]]
             r == write_chrome_trace(entries)
         IN fcall' = Some([op |-> "trace", entries |-> entries, active |-> r.active,
                           events |-> r.events, has_trace |-> write_trace(entries)])
    /\ UNCHANGED <<samplerVars, fdVars, tr, mc, gate>>

InitReport == SamplerIdle /\ FdIdle /\ TraceIdle /\ CacheIdle /\ GateIdle /\ CallIdle
NextReport == TraceCall
SpecReport == InitReport /\ [][NextReport]_vars

\* ------------------------------------------------------- specifications

\* monitor_iteration, called over and over in a changing /proc.
Next ==
    \/ CollectAndPrune
    \/ ProcessNext
    \/ IterationDone
    \/ ProcStart
    \/ ProcExit
    \/ Tick

Spec == Init /\ [][Next]_vars

\* run as a whole.
InitRun == RunInit /\ FdIdle /\ TraceIdle /\ CacheIdle /\ GateIdle /\ CallIdle

NextRun ==
    \/ LoadConfig
    \/ Spawn
    \/ CheckTarget
    \/ LoopTop
    \/ CollectAndPrune
    \/ ProcessNext
    \/ IterationDone
    \/ PostIter
    \/ TermCheck
    \/ SleepQuantum
    \/ PostSleep
    \/ ExitTerm
    \/ ChildWait
    \/ ProcStart
    \/ ProcExit
    \/ ChildExit
    \/ Tick
    \/ Sigint

SpecRun == InitRun /\ [][NextRun]_vars

\* ---------------------------------------------------------------- claims

\* Replaying FdEvents over a map: an event with a new_path (open, replace)
\* sets fd -> new_path, one without (close) removes the fd.
RECURSIVE ReplayFd(_, _)
ReplayFd(m, evs) ==
    IF evs = <<>> THEN m
    ELSE LET ev == Head(evs)
         IN ReplayFd(IF IsSome(ev.new_path) THEN MapPut(m, ev.fd, Unwrap(ev.new_path))
                                            ELSE MapRemove(m, ev.fd),
                     Tail(evs))

\* C1: for every previous map P in ProcState.fds and every current map C,
\* replaying the events detect_fd_events returns over P yields exactly C.
C1_Theorem ==
    IsSome(fd_call) =>
        ReplayFd(Unwrap(fd_call).prev, Unwrap(fd_call).events) = Unwrap(fd_call).cur

\* A call that reports a replace of one fd together with a close or an open
\* of another.
C1_Witness ==
    /\ IsSome(fd_call)
    /\ LET evs == Unwrap(fd_call).events
       IN /\ \E i \in DOMAIN evs : IsSome(evs[i].old_path) /\ IsSome(evs[i].new_path)
          /\ \E i \in DOMAIN evs : evs[i].old_path = None \/ evs[i].new_path = None

HasMetadata(e) == IsSome(e.cmdline) \/ IsSome(e.env)

\* C2 as stated: over any sequence of iterations at most one entry of a PID
\* has cmdline or env, and it is the first entry emitted for the PID: an
\* entry with metadata is written by process_pid for a PID that had no entry
\* with metadata before.
C2_Claim ==
    \A i \in DOMAIN written :
        HasMetadata(written[i]) =>
            written[i].by = "process_pid" /\ call.first /\ ~call.prior_meta

\* C2, amended: within one lifetime of a PID's ProcState an entry with
\* cmdline or env is the first entry emitted in that lifetime, so there is
\* at most one; the final entry of prune_states has neither.
C2_Theorem ==
    \A i \in DOMAIN written :
        /\ written[i].by = "prune_states" => ~HasMetadata(written[i])
        /\ HasMetadata(written[i]) => written[i].by = "process_pid" /\ call.first

\* A PID whose state was pruned comes back and its entry has metadata again.
C2_Witness ==
    /\ call.prior_meta
    /\ call.first
    /\ \E i \in DOMAIN written : HasMetadata(written[i])

Remaining == {pids[i] : i \in DOMAIN pids}

\* C4: in every monitor_iteration exactly one entry is written for each
\* enumerated PID that the skip predicate lets through, none for a skipped
\* PID (nor for a PID not enumerated, nor before its turn), and at most one
\* final entry for a PID that disappeared.
C4_Theorem ==
    pc = "process" =>
        /\ \A p \in iter.pids :
              iter.written[p] = IF p \in Remaining \/ p \in iter.skipped THEN 0 ELSE 1
        /\ \A p \in PIDs \ iter.pids : iter.written[p] = 0
        /\ \A p \in PIDs : iter.finals[p] <= 1
        /\ \A p \in PIDs : iter.finals[p] = 1 => p \in DOMAIN iter.pruned

\* The end of an iteration in which one PID was skipped and one was not.
C4_Witness ==
    /\ pc = "process"
    /\ pids = <<>>
    /\ iter.skipped # {}
    /\ iter.pids \ iter.skipped # {}

\* C5: after prune_states returns, and for the rest of the iteration, every
\* key of states belongs to the fresh PID set.
C5_Theorem == pc = "process" => DOMAIN states \subseteq iter.pids

\* prune_states has just removed the state of a PID that left.
C5_Witness ==
    /\ pc = "process"
    /\ call = NoCall
    /\ DOMAIN iter.pruned # {}

\* A close event of every fd of fds, and nothing else.
IsDrainOf(evs, fds) ==
    /\ Len(evs) = Cardinality(DOMAIN fds)
    /\ \A fd \in DOMAIN fds : \E j \in DOMAIN evs : evs[j] = FdLogEvent(fd, "close", fds[fd])

IsFinalEntry(e, fds) ==
    /\ e.by = "prune_states"
    /\ e.cpu_time_percent = 0
    /\ e.memory = [rss_kb |-> 0, vsz_kb |-> 0, swap_kb |-> 0]
    /\ e.cmdline = None /\ e.env = None /\ e.threads = <<>>
    /\ IsSome(e.fd_events) /\ IsDrainOf(Unwrap(e.fd_events), fds)

\* prune_states has just returned.
Pruned == pc = "process" /\ call = NoCall

\* C6 as stated: for every PID of states absent from the fresh set
\* prune_states writes a final entry (zero CPU and memory, no metadata, no
\* threads, one close per fd left) and destroys the state.
C6_Claim ==
    Pruned =>
        \A p \in DOMAIN iter.pruned :
            /\ p \notin DOMAIN states
            /\ \E i \in DOMAIN written :
                  written[i].pid = p /\ IsFinalEntry(written[i], iter.pruned[p])

\* C6, amended: prune_states destroys the state of every PID absent from
\* the fresh set; it writes a final entry for it (zero CPU and memory, no
\* metadata, no threads, one close per fd left) exactly when the PID's fds
\* map is not empty, and writes nothing for a PID with no fd left.
C6_Theorem ==
    Pruned =>
        /\ \A p \in DOMAIN iter.pruned :
              /\ p \notin DOMAIN states
              /\ IF iter.pruned[p] = EmptyMap
                    THEN \A i \in DOMAIN written : written[i].pid # p
                    ELSE /\ Cardinality({i \in DOMAIN written : written[i].pid = p}) = 1
                         /\ \A i \in DOMAIN written :
                               written[i].pid = p => IsFinalEntry(written[i], iter.pruned[p])
        /\ \A i \in DOMAIN written : written[i].pid \in DOMAIN iter.pruned

\* A PID with no fd left is pruned and nothing is written for it.
C6_Witness ==
    /\ Pruned
    /\ \E p \in DOMAIN iter.pruned : iter.pruned[p] = EmptyMap
    /\ written = <<>>

\* C7: at whichever check point run sees the terminate flag, it has done one
\* more full monitor_iteration and waited for its child by the time it
\* returns.
C7_Claim ==
    pc = "done" /\ obs.at # "none" =>
        /\ obs.iterated
        /\ child # "none" => obs.waited

\* C8: when capture_stack_trace returns after a successful attach, it has
\* called ptrace::detach on the TID.
C8_Claim == tr.phase = "returned" /\ tr.attach_ok => tr.detached

\* C9: for a path that names a regular file, get_module loads the file
\* exactly when the cache holds no entry for the path or the entry's mtime
\* differs from the file's; otherwise it returns the cached outcome, module
\* or rejection, and leaves the entry alone; after a load the entry holds
\* the file's mtime and the outcome of loading the file as it is now, with
\* is_pic set exactly for a PIC object.
C9_Theorem ==
    IsSome(mc.last) /\ Unwrap(mc.last).file.kind = "regular" =>
        LET l == Unwrap(mc.last)
        IN /\ l.loaded <=> (l.before = None \/ Unwrap(l.before).mtime # Some(l.file.mtime))
           /\ ~l.loaded => l.result = Unwrap(l.before).module /\ mc.cache = l.before
           /\ l.loaded =>
                 /\ IsSome(mc.cache)
                 /\ Unwrap(mc.cache).mtime = Some(l.file.mtime)
                 /\ Unwrap(mc.cache).module = l.result
                 /\ IsSome(l.result) <=> l.file.content \in {"exec", "dyn"}
                 /\ IsSome(l.result) => (Unwrap(l.result).is_pic <=> l.file.content = "dyn")

\* A reload after an mtime change that turns a cached non-PIC module into a
\* PIC one.
C9_Witness ==
    /\ IsSome(mc.last)
    /\ LET l == Unwrap(mc.last)
       IN /\ l.loaded
          /\ IsSome(l.before)
          /\ IsSome(Unwrap(l.before).module)
          /\ ~Unwrap(Unwrap(l.before).module).is_pic
          /\ IsSome(l.result)
          /\ Unwrap(l.result).is_pic

\* C10: build_log_entry, in run.rs and in main.rs, calls the capture
\* functions if and only if cpu_percent >= stacktrace_cpu_percent_threshold,
\* and an entry below the threshold has no threads.
C10_Claim ==
    IsSome(gate) =>
        LET g == Unwrap(gate)
        IN /\ g.run.captured <=> g.cpu >= g.threshold
           /\ g.main.captured <=> g.cpu >= g.threshold
           /\ g.cpu < g.threshold =>
                 g.run.entry.threads = <<>> /\ g.main.entry.threads = <<>>

\* C11: pinned to a target_pid, should_skip_pid never skips; not pinned, it
\* skips a PID if and only if its comm matches an ignore pattern or its
\* cpu_percent is strictly below record_cpu_percent_threshold.
C11_Theorem ==
    call.pid # 0 =>
        IF IsSome(target_pid)
           THEN ~call.skipped
           ELSE call.skipped <=>
                   \/ IsSome(call.name) /\ Unwrap(call.name) \in cfg.ignore
                   \/ call.cpu < cfg.record_cpu_percent_threshold

\* A pinned PID whose comm is ignored and whose figure is below the record
\* threshold is not skipped.
C11_Witness ==
    /\ call.pid # 0
    /\ IsSome(target_pid)
    /\ IsSome(call.name) /\ Unwrap(call.name) \in cfg.ignore
    /\ call.cpu < cfg.record_cpu_percent_threshold
    /\ ~call.skipped

\* The event detect_fd_events owes for fd between the maps P and C, if any.
ExpectedFdEvent(P, C, fd) ==
    IF fd \in DOMAIN P /\ fd \notin DOMAIN C THEN Some(FdEvent(fd, Some(P[fd]), None))
    ELSE IF fd \notin DOMAIN P /\ fd \in DOMAIN C THEN Some(FdEvent(fd, None, Some(C[fd])))
    ELSE IF fd \in DOMAIN P /\ fd \in DOMAIN C /\ P[fd] # C[fd]
       THEN Some(FdEvent(fd, Some(P[fd]), Some(C[fd])))
    ELSE None

\* C12: detect_fd_events returns exactly one FdEvent for each fd whose
\* presence or path differs between P and C (close, open or replace, as the
\* case is), no event for an fd that is in both with the same path, and no
\* fd appears in two events.
C12_Theorem ==
    IsSome(fd_call) =>
        LET c == Unwrap(fd_call)
        IN /\ \A fd \in DiffFds :
                LET idx == {i \in DOMAIN c.events : c.events[i].fd = fd}
                    exp == ExpectedFdEvent(c.prev, c.cur, fd)
                IN IF exp = None
                      THEN idx = {}
                      ELSE /\ Cardinality(idx) = 1
                           /\ \A i \in idx : c.events[i] = Unwrap(exp)
           /\ \A i \in DOMAIN c.events : c.events[i].fd \in DiffFds

\* One fd is replaced while another keeps its path.
C12_Witness ==
    /\ IsSome(fd_call)
    /\ LET c == Unwrap(fd_call)
       IN /\ \E fd \in DOMAIN c.prev \cap DOMAIN c.cur : c.prev[fd] # c.cur[fd]
          /\ \E fd \in DOMAIN c.prev \cap DOMAIN c.cur : c.prev[fd] = c.cur[fd]

\* The fd events of the entry the last process_pid call wrote.
LoggedFdEvents ==
    IF written # <<>> /\ IsSome(written[1].fd_events) THEN Unwrap(written[1].fd_events) ELSE <<>>

\* The fds the last process_pid call found pointing to another path.
ReplacedFds ==
    IF call.pid = 0 \/ call.skipped \/ call.pid \notin DOMAIN states THEN {}
    ELSE {fd \in DOMAIN call.prev_fds \cap DOMAIN states[call.pid].fds :
            call.prev_fds[fd] # states[call.pid].fds[fd]}

\* C13: an fd that pointed to path a in the previous map and points to a
\* different path b in the current one has exactly two events in the entry
\* of that call: {close, a} immediately followed by {open, b}.
C13_Theorem ==
    \A fd \in ReplacedFds :
        /\ Len(written) = 1
        /\ Cardinality({i \in DOMAIN LoggedFdEvents : LoggedFdEvents[i].fd = fd}) = 2
        /\ \E i \in DOMAIN LoggedFdEvents :
              /\ i + 1 \in DOMAIN LoggedFdEvents
              /\ LoggedFdEvents[i] = FdLogEvent(fd, "close", call.prev_fds[fd])
              /\ LoggedFdEvents[i + 1] = FdLogEvent(fd, "open", states[call.pid].fds[fd])

\* A process_pid call has found an fd replaced.
C13_Witness == ReplacedFds # {}

\* The events process_pid logs for the FdEvents of the last diff.
DiffLogged == IF IsSome(fd_call) THEN ExpandFdEvents(Unwrap(fd_call).events) ELSE <<>>

\* C14: the fd events logged for the diff of one tick are in ascending fd
\* order, with close before open for a replaced fd.
C14_Claim ==
    \A i, j \in DOMAIN DiffLogged :
        i < j =>
            \/ DiffLogged[i].fd < DiffLogged[j].fd
            \/ /\ DiffLogged[i].fd = DiffLogged[j].fd
               /\ DiffLogged[i].event = "close"
               /\ DiffLogged[j].event = "open"

\* C15: an entry written for a PID carries a timestamp strictly greater
\* than that of the entry written for the same PID before it.
C15_Claim ==
    \A i \in DOMAIN written :
        written[i].by = "process_pid" /\ IsSome(call.prev_ts) =>
            written[i].timestamp > Unwrap(call.prev_ts)

\* C16: no PID of the enumeration is left unsampled behind a process_pid
\* call that does not return: when a tracee never stops after PTRACE_ATTACH
\* the wait ends all the same and monitor_iteration goes on to the PIDs
\* that follow.
C16_Claim == pc = "stalled" => Tail(pids) = <<>>

\* C17: when run, pinned with -p to an existing PID and without a child,
\* has returned because that process disappeared (not on SIGINT, not on the
\* startup check), it has printed "Process <pid> (<name>) disappeared,
\* exiting", whichever of the two vanish checks saw the disappearance.
C17_Claim ==
    /\ pc = "done"
    /\ IsSome(cfg.pid) /\ ~cfg.command
    /\ ~term
    /\ "not found" \notin printed
    => "disappeared, exiting" \in printed

\* No monitor_iteration has run and no log entry has been written.
NothingSampled ==
    /\ states = [p \in {} |-> DefaultProcState]
    /\ written = <<>>
    /\ hist = NoHist
    /\ iter = NoIter

\* C18: when an explicit target PID is given and /proc/<pid> does not exist
\* at the startup check, run prints "pid <n> not found" and returns at once;
\* no monitor_iteration runs and no log entry is written before the check,
\* and none ever after the message.
C18_Theorem ==
    /\ [](pc \in {"load_config", "start", "check_target"} => NothingSampled)
    /\ []("not found" \in printed => pc = "done" /\ NothingSampled)
    /\ [][pc = "check_target" /\ IsSome(cfg.pid) /\ ~proc_dir_exists(Unwrap(cfg.pid))
            => /\ pc' = "done"
               /\ printed' = printed \cup {"not found"}
               /\ NothingSampled']_vars

C18_Witness ==
    /\ IsSome(cfg.pid)
    /\ pc = "done"
    /\ "not found" \in printed
    /\ NothingSampled

\* C19: the process ends with status 1 in each of the three failure cases
\* (target pid not found at startup, config file unreadable or unparsable,
\* failure to spawn the command) and with status 0 otherwise.
C19_Claim ==
    IsSome(exit_code) =>
        exit_code = IF \/ pc \in {"panicked", "aborted"}
                       \/ "not found" \in printed
                       \/ "failed to spawn" \in printed
                       THEN Some(1) ELSE Some(0)

\* C20: when run was given a command and returns after the child it spawned
\* has exited, it has reaped the child and has written at least one LogEntry
\* for the child's PID.
C20_Claim ==
    cfg.command /\ pc = "done" /\ child \in {"exited", "reaped"} =>
        /\ child = "reaped"
        /\ IsSome(hist[ChildPid].last_ts)

\* C21 as stated: a get_proc_usage call that finds prev_total_time = 0
\* returns no figure and stores the snapshot read, and after a call for a
\* PID that already had a ProcState (its second observation or a later one)
\* prev_total_time is non-zero.
C21_Claim ==
    call.pid # 0 /\ call.pid \in DOMAIN states =>
        /\ call.prev_total_time = 0 =>
              /\ call.usage = None
              /\ states[call.pid].prev_total_time # 0
        /\ ~call.is_new => states[call.pid].prev_total_time # 0

\* C21, amended: a get_proc_usage call that finds prev_total_time = 0
\* returns no figure. A call whose reads of /proc/<pid>/stat and /proc/stat
\* succeed stores both values read, so prev_total_time is non-zero after
\* it; a call whose read fails leaves both fields as they were. Hence
\* prev_total_time is non-zero after the second observation exactly when
\* one of the two calls could read the PID's stat.
C21_Theorem ==
    call.pid # 0 /\ call.pid \in DOMAIN states =>
        /\ call.prev_total_time = 0 => call.usage = None
        /\ IF IsSome(call.stat) /\ IsSome(call.total)
              THEN /\ states[call.pid].prev_proc_time = Unwrap(call.stat)
                   /\ states[call.pid].prev_total_time = Unwrap(call.total)
                   /\ states[call.pid].prev_total_time # 0
              ELSE /\ states[call.pid].prev_proc_time = call.prev_proc_time
                   /\ states[call.pid].prev_total_time = call.prev_total_time
                   /\ call.usage = None

\* The second observation of a PID whose first one seeded the snapshot.
C21_Witness ==
    /\ call.pid # 0 /\ call.pid \in DOMAIN states
    /\ ~call.is_new
    /\ call.prev_total_time # 0
    /\ IsSome(call.stat)
    /\ states[call.pid].prev_total_time # 0

\* C22: compute_cpu_percent returns 0 when delta_total is 0 and otherwise
\* 100 * delta_proc / delta_total * num_cpus (the model's figure is the
\* integer part of that quotient); deltas of 2 and 2 on 2 CPUs give 200.
C22_Theorem ==
    IsSome(fcall) /\ Unwrap(fcall).op = "compute_cpu_percent" =>
        LET c == Unwrap(fcall)
        IN /\ c.delta_total = 0 => c.percent = 0
           /\ c.delta_total > 0 =>
                 /\ c.percent * c.delta_total <= 100 * c.delta_proc * c.num_cpus
                 /\ 100 * c.delta_proc * c.num_cpus < (c.percent + 1) * c.delta_total
           /\ c.delta_proc = 2 /\ c.delta_total = 2 /\ c.num_cpus = 2 => c.percent = 200

\* The call of the unit test: all jiffies of two cores on a 2-CPU machine.
C22_Witness ==
    /\ IsSome(fcall)
    /\ Unwrap(fcall).op = "compute_cpu_percent"
    /\ Unwrap(fcall).delta_proc = 2 /\ Unwrap(fcall).delta_total = 2
    /\ Unwrap(fcall).num_cpus = 2
    /\ Unwrap(fcall).percent = 200

\* The Python capture of a merge call as the merge sees it: empty unless
\* the process name starts with "python" and the capture succeeded.
PyOf(c) ==
    IF StartsWithPython(c.name) /\ IsSome(c.py_traces) THEN Unwrap(c.py_traces) ELSE EmptyMap

\* C23: in the threads of an entry each TID appears in at most one
\* ThreadInfo; a TID of both captures has a single ThreadInfo with the native
\* capture's stacktrace and its python_stacktrace, a TID of the Python
\* capture only has one with stacktrace None and its python_stacktrace, and
\* a TID of the native capture only has one without python_stacktrace.
C23_Theorem ==
    IsSome(fcall) /\ Unwrap(fcall).op = "merge" =>
        LET c == Unwrap(fcall)
            py == PyOf(c)
            th == c.threads
        IN /\ \A i, j \in DOMAIN th : th[i].tid = th[j].tid => i = j
           /\ {th[i].tid : i \in DOMAIN th} = TidsOf(c.c_traces) \cup DOMAIN py
           /\ \A k \in DOMAIN c.c_traces :
                 \E i \in DOMAIN th :
                    th[i] = ThreadInfo(c.c_traces[k].tid, c.c_traces[k].stacktrace,
                                       IF c.c_traces[k].tid \in DOMAIN py
                                          THEN Some(py[c.c_traces[k].tid]) ELSE None)
           /\ \A t \in DOMAIN py \ TidsOf(c.c_traces) :
                 \E i \in DOMAIN th : th[i] = ThreadInfo(t, None, Some(py[t]))

\* A merge in which one TID is in both captures and another in the Python
\* capture only.
C23_Witness ==
    /\ IsSome(fcall)
    /\ Unwrap(fcall).op = "merge"
    /\ TidsOf(Unwrap(fcall).c_traces) \cap DOMAIN PyOf(Unwrap(fcall)) # {}
    /\ DOMAIN PyOf(Unwrap(fcall)) \ TidsOf(Unwrap(fcall).c_traces) # {}
    /\ Len(Unwrap(fcall).threads) = 2

\* C24: counted from the moment SIGINT sets the terminate flag, run starts
\* at most one further monitor_iteration before it returns.
C24_Claim == obs.started <= 1

\* C25: in each of the four formats, read_log_entries on the file that
\* successive write_log calls appended to returns the entries written: as
\* many, in write order, with equal fields; the msgpack reader ends at the
\* end of the stream without an error.
C25_Theorem ==
    IsSome(fcall) /\ Unwrap(fcall).op = "log" =>
        read_log_entries(Unwrap(fcall).path, Unwrap(fcall).bytes) = Some(Unwrap(fcall).entries)

\* Two different entries in a compressed msgpacks file.
C25_Witness ==
    /\ IsSome(fcall)
    /\ Unwrap(fcall).op = "log"
    /\ Unwrap(fcall).use_msgpack /\ Unwrap(fcall).compress
    /\ Len(Unwrap(fcall).entries) = 2
    /\ Unwrap(fcall).entries[1] # Unwrap(fcall).entries[2]
    /\ read_log_entries(Unwrap(fcall).path, Unwrap(fcall).bytes) = Some(Unwrap(fcall).entries)

\* C26: when the configuration gives no output.compress, the log files are
\* compressed, and carry the zst suffix, exactly when the format with its
\* aliases resolved ends with ".zst"; a missing format counts as jsonl.zst.
C26_Claim ==
    IsSome(fcall) /\ Unwrap(fcall).op = "setup" /\ Unwrap(fcall).output.compress = None =>
        LET c == Unwrap(fcall)
            zst == EndsWithZst(NormalFormat(c.output.format))
        IN /\ c.setup.compress = zst
           /\ (c.file[Len(c.file)] = "zst") = zst

\* C27: when run has returned without SIGINT, no PID that was emitted with
\* fds recorded in its ProcState and has disappeared is left without its
\* final entry: prune_states has removed every such PID from states, the
\* pinned target whose disappearance ended the loop included.
C27_Claim ==
    pc = "done" /\ ~term =>
        \A p \in DOMAIN states :
            hist[p].emitted /\ states[p].fds # EmptyMap => p \in procs

\* C28: after get_module on a path that exists but is not a regular file,
\* the call has returned no module and the cache holds a rejection for the
\* path with the mtime observed.
C28_Claim ==
    IsSome(mc.last) /\ Unwrap(mc.last).file.kind = "special" =>
        /\ Unwrap(mc.last).result = None
        /\ mc.cache = Some([module |-> None, mtime |-> Some(Unwrap(mc.last).file.mtime)])

\* C29: capture_c_stack_traces returns one element per TID listed under
\* /proc/<pid>/task, in ascending TID order; the element of a TID whose
\* capture fails is (tid, None), and the TIDs after it are captured all the
\* same: N threads give N elements.
C29_Theorem ==
    IsSome(fcall) /\ Unwrap(fcall).op = "capture" =>
        LET c == Unwrap(fcall)
            listed == IF IsSome(c.listing)
                         THEN {Unwrap(c.listing)[i] : i \in DOMAIN Unwrap(c.listing)} ELSE {}
        IN /\ Len(c.traces) = Cardinality(listed)
           /\ {c.traces[i].tid : i \in DOMAIN c.traces} = listed
           /\ \A i, j \in DOMAIN c.traces : i < j => c.traces[i].tid < c.traces[j].tid
           /\ \A i \in DOMAIN c.traces :
                 IsSome(c.traces[i].stacktrace) <=> c.outcome[c.traces[i].tid] = "ok"

\* Three threads listed out of order, the attach to the first TID fails and
\* the later ones are captured.
C29_Witness ==
    /\ IsSome(fcall)
    /\ Unwrap(fcall).op = "capture"
    /\ IsSome(Unwrap(fcall).listing)
    /\ Len(Unwrap(Unwrap(fcall).listing)) = 3
    /\ Unwrap(Unwrap(fcall).listing)[1] # 1
    /\ Unwrap(fcall).outcome[1] = "attach_err"
    /\ Len(Unwrap(fcall).traces) = 3
    /\ Unwrap(fcall).traces[1] = [tid |-> 1, stacktrace |-> None]
    /\ IsSome(Unwrap(fcall).traces[2].stacktrace)

\* C30: when a read of the tracee's memory fails in the middle of the frame
\* walk, capture_stack_trace returns the addresses collected up to that
\* point as the thread's trace.
C30_Claim == tr.phase = "returned" /\ tr.n >= 1 => tr.result = "ok"

\* C31: get_stack_trace terminates whatever the registers and the tracee's
\* memory hold, a cyclic frame-pointer chain included: once the registers
\* are read the capture returns; the result starts with RIP, the walk goes
\* on only from a non-zero RBP and only while fewer than 32 frames were
\* read, and the result never holds more than 33 addresses.
C31_Theorem ==
    /\ [](tr.n <= MaxFrames + 1 /\ tr.iters <= MaxFrames)
    /\ [](tr.phase = "walk" \/ tr.result = "ok" => tr.n >= 1)
    /\ [][tr.phase = "walk" /\ tr'.phase = "walk" =>
            /\ tr.rbp # 0 /\ tr'.rbp # 0
            /\ tr.iters < MaxFrames
            /\ tr'.iters = tr.iters + 1 /\ tr'.n = tr.n + 1]_vars
    /\ [][tr.phase = "walk" /\ (tr.rbp = 0 \/ tr.iters = MaxFrames) =>
            tr'.phase = "detach" /\ tr'.result = "ok" /\ tr'.n = tr.n]_vars
    /\ (tr.phase = "getregs" ~> tr.phase = "returned")

\* A walk of a chain that never reaches 0, ended after 32 frames with 33
\* addresses.
C31_Witness ==
    /\ tr.phase = "returned"
    /\ tr.result = "ok"
    /\ tr.rbp # 0
    /\ tr.iters = MaxFrames
    /\ tr.n = MaxFrames + 1

\* C32: no ThreadInfo of an entry's threads has both stacktrace and
\* python_stacktrace absent, also for a TID whose attach failed and that has
\* no Python frames.
C32_Claim ==
    IsSome(fcall) /\ Unwrap(fcall).op = "merge" =>
        \A i \in DOMAIN Unwrap(fcall).threads :
            \/ IsSome(Unwrap(fcall).threads[i].stacktrace)
            \/ IsSome(Unwrap(fcall).threads[i].python_stacktrace)

\* C33: inside an iteration of the loop the terminate flag is observed
\* between the processing of two consecutive PIDs: process_pid is not called
\* for a PID after the first of the enumeration once the flag is set.
C33_Claim ==
    call.pid # 0 /\ ret = "post_iter" /\ call.term => call.head

C34_Probe(r) ==
    IF r.is_pic THEN (r.addr - r.info.start + r.info.offset) % AddrSpace ELSE r.addr

C34_InRange(r) == r.info.start <= r.addr /\ r.addr < r.info.end

\* C34: describe_addr resolves an address a against a module only when
\* start <= a < end; the address looked up is then a for a non-PIC module and
\* a - start + offset for a PIC module (u64 arithmetic), less the loader's
\* relative address base; outside the range there is no description whatever
\* the PIC flag.
C34_Theorem ==
    IsSome(fcall) /\ Unwrap(fcall).op = "describe" =>
        LET r == Unwrap(fcall)
            looked == (C34_Probe(r) - r.loader.base + AddrSpace) % AddrSpace
        IN /\ IsSome(r.result) => C34_InRange(r)
           /\ C34_InRange(r) =>
                r.result = IF looked \in r.loader.syms THEN Some(looked) ELSE None
           /\ ~C34_InRange(r) => r.result = None

C34_Witness ==
    /\ IsSome(fcall) /\ Unwrap(fcall).op = "describe"
    /\ Unwrap(fcall).is_pic /\ C34_InRange(Unwrap(fcall))
    /\ Unwrap(fcall).info.start # Unwrap(fcall).info.offset
    /\ Unwrap(fcall).loader.base = 1
    /\ Unwrap(fcall).result = Some(0)

C35_LinesOf(r, path) == {i \in DOMAIN r.lines : r.lines[i].path = Some(path)}

C35_Grouped(r, m) ==
    LET L == C35_LinesOf(r, m.path)
    IN /\ L # {}
       /\ \E i \in L : /\ r.lines[i].start = m.info.start
                       /\ r.lines[i].offset = m.info.offset
                       /\ \A j \in L : r.lines[j].start >= m.info.start
       /\ \E i \in L : /\ r.lines[i].end = m.info.end
                       /\ \A j \in L : r.lines[j].end <= m.info.end

RECURSIVE C35_Orders(_)
C35_Orders(S) ==
    IF S = {} THEN {<<>>}
    ELSE UNION {{<<x>> \o rest : rest \in C35_Orders(S \ {x})} : x \in S}

\* C35: load_loaders groups the lines of /proc/<pid>/maps by path: for each
\* path start is the minimum start, end is the maximum end and offset is the
\* offset of the mapping with the smallest start, and every order of the same
\* lines gives the same groups.
C35_Theorem ==
    IsSome(fcall) /\ Unwrap(fcall).op = "loaders" =>
        LET r == Unwrap(fcall)
            n == Len(r.lines)
        IN /\ {r.modules[k].path : k \in DOMAIN r.modules}
                = {q \in r.loadable : C35_LinesOf(r, q) # {}}
           /\ \A k \in DOMAIN r.modules : C35_Grouped(r, r.modules[k])
           /\ \A perm \in C35_Orders(1 .. n) :
                load_loaders([i \in 1 .. n |-> r.lines[perm[i]]], r.loadable,
                             [k \in DOMAIN r.modules |-> r.modules[k].path]) = r.modules

C35_Witness ==
    /\ IsSome(fcall) /\ Unwrap(fcall).op = "loaders"
    /\ Len(Unwrap(fcall).lines) = 3
    /\ \A i \in 1 .. 3 : Unwrap(fcall).lines[i].path = Some("a")
    /\ Unwrap(fcall).lines[1].start > Unwrap(fcall).lines[2].start
    /\ Unwrap(fcall).lines[2].start > Unwrap(fcall).lines[3].start
    /\ Unwrap(fcall).lines[1].offset # Unwrap(fcall).lines[3].offset
    /\ Len(Unwrap(fcall).modules) = 1
    /\ Unwrap(fcall).modules[1].info.offset = Unwrap(fcall).lines[3].offset

C36_HasFrames(e) ==
    \E k \in DOMAIN e.threads :
        \/ IsSome(e.threads[k].stacktrace) /\ Unwrap(e.threads[k].stacktrace) # <<>>
        \/ IsSome(e.threads[k].python_stacktrace) /\ Unwrap(e.threads[k].python_stacktrace) # <<>>

\* C36: <pid>_trace.json is written, and linked, if and only if some entry of
\* the file has a thread with a non-empty stacktrace or python_stacktrace, and
\* no frame span opened during the scan is left unemitted when
\* write_chrome_trace returns.
C36_Claim ==
    IsSome(fcall) /\ Unwrap(fcall).op = "trace" =>
        LET r == Unwrap(fcall)
        IN /\ r.has_trace <=> \E i \in DOMAIN r.entries : C36_HasFrames(r.entries[i])
           /\ r.active = EmptyMap

\* C37: for every PID, between the calls of any sequence of iterations, the
\* fd events written so far for the PID, replayed in log order from the empty
\* map, give the fds of the PID's ProcState, and the empty map once the PID's
\* state is pruned and its final entry, if any, is written.
C37_Theorem ==
    pc # "stalled" =>
        \A p \in PIDs :
            hist[p].replay = IF p \in DOMAIN states THEN states[p].fds ELSE EmptyMap

C37_Witness ==
    /\ pc = "process"
    /\ \E p \in PIDs :
         /\ iter.finals[p] > 0
         /\ p \in DOMAIN iter.pruned /\ iter.pruned[p] # EmptyMap
         /\ p \notin DOMAIN states
         /\ hist[p].replay = EmptyMap

\* C38: pending_fd_events of every ProcState is empty whenever process_pid
\* has returned: the events a call detects are all in the entry that call
\* writes, none is kept for a later iteration or for prune_states.
C38_Theorem ==
    /\ \A p \in DOMAIN states : states[p].pending_fd_events = <<>>
    /\ call.pid # 0 =>
         /\ ReplayLog(call.prev_fds, call.pid, written) = states[call.pid].fds
         /\ call.skipped => written = <<>>

C38_Witness ==
    /\ call.pid # 0 /\ ~call.skipped
    /\ call.prev_fds # EmptyMap
    /\ states[call.pid].fds # call.prev_fds
    /\ Len(written) = 1 /\ IsSome(written[1].fd_events)
    /\ states[call.pid].pending_fd_events = <<>>

\* C39: a process_pid call for which should_skip_pid is true writes no
\* entry and leaves the PID's fds, pending_fd_events and metadata_written as
\* they were; of the ProcState only prev_proc_time and prev_total_time may
\* differ after the call.
C39_Theorem ==
    call.pid # 0 /\ call.skipped =>
        /\ written = <<>>
        /\ call.pid \in DOMAIN states
        /\ DOMAIN states[call.pid]
             = {"fds", "pending_fd_events", "metadata_written", "prev_proc_time", "prev_total_time"}
        /\ states[call.pid].fds = call.prev_fds
        /\ states[call.pid].pending_fd_events = call.prev_pending
        /\ states[call.pid].metadata_written = call.prev_meta

C39_Witness ==
    /\ call.pid # 0 /\ call.skipped
    /\ call.prev_fds # EmptyMap /\ call.prev_meta
    /\ states[call.pid].prev_proc_time # call.prev_proc_time

\* C40: when monitor_iteration returns, the keys of states are the PIDs
\* that iteration enumerated: every enumerated PID has a ProcState, the
\* PIDs skipped by the ignore patterns or the record threshold included, and
\* no other PID has one.
C40_Theorem ==
    /\ pc = "process" =>
         /\ DOMAIN states \subseteq iter.pids
         /\ iter.skipped \subseteq DOMAIN states
    /\ pc = "process" /\ pids = <<>> => DOMAIN states = iter.pids

C40_Witness ==
    /\ pc = "process" /\ pids = <<>>
    /\ iter.skipped # {}
    /\ DOMAIN iter.pruned # {}
    /\ DOMAIN states = iter.pids

====
